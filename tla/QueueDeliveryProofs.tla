------------------------ MODULE QueueDeliveryProofs ------------------------
(***************************************************************************)
(* Proofs about QueueDelivery, for every set of items, threads and steer   *)
(* requests and for every bound on crashes, failures, retries and turns.   *)
(***************************************************************************)
EXTENDS QueueDelivery, TLAPS

(* A transaction of SqliteStateFile leaves databases of the right type
   whatever its outcome. *)
LEMMA TransactionType ==
    ASSUME mem \in [Items -> Row], disk \in [Items -> Row],
           faults \in 0 .. MaxFaults,
           NEW new \in [Items -> Row], NEW o \in TxOutcome,
           Transaction(new, o)
    PROVE  /\ mem' \in [Items -> Row] /\ disk' \in [Items -> Row]
           /\ faults' \in 0 .. MaxFaults
  BY MaxFaultsAssumption DEF Transaction

(* What the row operators of QueueRepository do to the status and the claim
   of a row. *)
LEMMA RowOperators ==
    ASSUME NEW row \in Row, NEW k \in Nat
    PROVE  /\ NoRow \in Row /\ NoRow.status = "absent" /\ NoRow.key = 0
           /\ NewRow \in Row /\ NewRow.status = "pending" /\ NewRow.key = 0
           /\ pauseRow(row) \in Row
           /\ pauseRow(row).status = "paused" /\ pauseRow(row).key = row.key
           /\ claimRow(row, k) \in Row
           /\ claimRow(row, k).status = "delivering"
           /\ claimRow(row, k).key = k
           /\ completeRow(row) \in Row
           /\ completeRow(row).key = row.key
           /\ completeRow(row).status \in {"completed", row.status}
           /\ markIndeterminateRow(row) \in Row
           /\ markIndeterminateRow(row).key = row.key
           /\ markIndeterminateRow(row).status \in {"indeterminate", row.status}
           /\ recoverRow(row) \in Row
           /\ recoverRow(row).key = row.key
           /\ recoverRow(row).status \in
                 IF row.status = "delivering" THEN {"indeterminate"}
                                              ELSE {row.status}
           /\ retryRow(row) \in Row
           /\ retryRow(row).status = "pending" /\ retryRow(row).key = 0
           /\ dismissRow(row) \in Row
           /\ dismissRow(row).status = "completed"
           /\ dismissRow(row).key = row.key
<1>1. NoRow \in Row /\ NoRow.status = "absent" /\ NoRow.key = 0
  BY DEF NoRow, Row, Status, Outcome
<1>2. NewRow \in Row /\ NewRow.status = "pending" /\ NewRow.key = 0
  BY <1>1 DEF NewRow, Row, Status, Outcome
<1>3. /\ pauseRow(row) \in Row
      /\ pauseRow(row).status = "paused" /\ pauseRow(row).key = row.key
  BY DEF pauseRow, updateQueueStatus, Row, Status, Outcome
<1>4. /\ claimRow(row, k) \in Row
      /\ claimRow(row, k).status = "delivering" /\ claimRow(row, k).key = k
  BY DEF claimRow, updateQueueStatus, Row, Status, Outcome
<1>5. /\ completeRow(row) \in Row /\ completeRow(row).key = row.key
      /\ completeRow(row).status \in {"completed", row.status}
  BY DEF completeRow, updateQueueStatus, Row, Status, Outcome
<1>6. /\ markIndeterminateRow(row) \in Row
      /\ markIndeterminateRow(row).key = row.key
      /\ markIndeterminateRow(row).status \in {"indeterminate", row.status}
  BY DEF markIndeterminateRow, updateQueueStatus, Row, Status, Outcome
<1>7. /\ recoverRow(row) \in Row /\ recoverRow(row).key = row.key
      /\ recoverRow(row).status \in
            IF row.status = "delivering" THEN {"indeterminate"}
                                         ELSE {row.status}
  BY DEF recoverRow, updateQueueStatus, Row, Status, Outcome
<1>8. /\ retryRow(row) \in Row
      /\ retryRow(row).status = "pending" /\ retryRow(row).key = 0
  BY DEF retryRow, updateQueueStatus, Row, Status, Outcome
<1>9. /\ dismissRow(row) \in Row
      /\ dismissRow(row).status = "completed"
      /\ dismissRow(row).key = row.key
  BY DEF dismissRow, updateQueueStatus, Row, Status, Outcome
<1>10. QED
  BY <1>1, <1>2, <1>3, <1>4, <1>5, <1>6, <1>7, <1>8, <1>9

-----------------------------------------------------------------------------
(***************************************************************************)
(* Type correctness                                                        *)
(***************************************************************************)
(* Every step of the queue, its users, the app-server and the state file
   keeps every variable in its type. *)
LEMMA TypeStep == TypeOK /\ ItemHeld /\ [Next]_vars => TypeOK'
<1> SUFFICES ASSUME TypeOK, ItemHeld, [Next]_vars PROVE TypeOK'
  OBVIOUS
<1> USE ItemsAssumption, WorkersAssumption, BoundsAssumption,
        MaxFaultsAssumption
<1>1. ASSUME NEW o \in TxOutcome, Start(o) PROVE TypeOK'
  <2>1. [i \in Items |-> recoverRow(mem[i])] \in [Items -> Row]
    BY RowOperators DEF TypeOK
  <2>2. QED
    BY <1>1, <2>1 DEF TypeOK, Start, StartupTransaction, serverVars, historyVars
<1>2. CASE Crash
  <2>1. /\ pc' \in [Workers -> Labels] /\ cur' \in [Workers -> Items \cup {0}]
        /\ seen' \in [Workers -> Nat] /\ key' \in [Workers -> Nat]
    BY <1>2 DEF Crash, TypeOK, Labels
  <2>2. started' \in BOOLEAN /\ gate' = Nobody
    BY <1>2, Zenon DEF Crash
  <2>3. crashes < MaxCrashes /\ crashes' = crashes + 1
    BY <1>2 DEF Crash
  <2>4. crashes' \in 0 .. MaxCrashes
    BY <2>3 DEF TypeOK
  <2>5. QED
    BY <1>2, <2>1, <2>2, <2>4 DEF TypeOK, Crash, LoseMemory, serverVars
<1>3. CASE FileStep
  BY <1>3 DEF TypeOK, FileStep, OtherCommit, ForeignCommit, serviceVars,
              serverVars, historyVars
<1>4. ASSUME NEW i \in Items, NEW o \in TxOutcome, Add(i, o) PROVE TypeOK'
  <2>1. [mem EXCEPT ![i] = NewRow] \in [Items -> Row]
    BY RowOperators DEF TypeOK
  <2>2. /\ mem' \in [Items -> Row] /\ disk' \in [Items -> Row]
        /\ faults' \in 0 .. MaxFaults
    BY <1>4, <2>1, TransactionType DEF TypeOK, Add
  <2>3. QED
    BY <1>4, <2>2 DEF TypeOK, Add, UserFrame, serviceVars, serverVars
<1>5. ASSUME NEW i \in Items, NEW o \in TxOutcome, Remove(i, o) PROVE TypeOK'
  <2>1. [mem EXCEPT ![i] = NoRow] \in [Items -> Row]
    BY RowOperators DEF TypeOK
  <2>2. /\ mem' \in [Items -> Row] /\ disk' \in [Items -> Row]
        /\ faults' \in 0 .. MaxFaults
    BY <1>5, <2>1, TransactionType DEF TypeOK, Remove
  <2>3. QED
    BY <1>5, <2>2 DEF TypeOK, Remove, UserFrame, serviceVars, serverVars
<1>6. ASSUME NEW i \in Items, NEW o \in TxOutcome, AcknowledgeRetry(i, o)
      PROVE  TypeOK'
  <2>1. [mem EXCEPT ![i] = retryRow(mem[i])] \in [Items -> Row]
    BY RowOperators DEF TypeOK
  <2>2. /\ mem' \in [Items -> Row] /\ disk' \in [Items -> Row]
        /\ faults' \in 0 .. MaxFaults
    BY <1>6, <2>1, TransactionType DEF TypeOK, AcknowledgeRetry
  <2>3. mem[i].key \in Nat
    BY DEF TypeOK, Row
  <2>4. QED
    BY <1>6, <2>2, <2>3
    DEF TypeOK, AcknowledgeRetry, UserFrame, serviceVars, serverVars
<1>7. ASSUME NEW i \in Items, NEW o \in TxOutcome, AcknowledgeDismiss(i, o)
      PROVE  TypeOK'
  <2>1. [mem EXCEPT ![i] = dismissRow(mem[i])] \in [Items -> Row]
    BY RowOperators DEF TypeOK
  <2>2. /\ mem' \in [Items -> Row] /\ disk' \in [Items -> Row]
        /\ faults' \in 0 .. MaxFaults
    BY <1>7, <2>1, TransactionType DEF TypeOK, AcknowledgeDismiss
  <2>3. mem[i].key \in Nat
    BY DEF TypeOK, Row
  <2>4. QED
    BY <1>7, <2>2, <2>3
    DEF TypeOK, AcknowledgeDismiss, UserFrame, serviceVars, serverVars
<1>8. CASE DispatchNext
  <2>1. \A i \in Items : mem[i].rev \in Nat
    BY DEF TypeOK, Row
  <2>2. QED
    BY <1>8, <2>1 DEF TypeOK, DispatchNext, Goto, fileVars, serverVars,
                      historyVars, Workers, Labels
<1>9. CASE EnterGate
  BY <1>9 DEF TypeOK, EnterGate, Goto, fileVars, serverVars, historyVars,
              Workers, Labels
<1>10. CASE InspectForDispatch
  BY <1>10 DEF TypeOK, InspectForDispatch, Goto, Finish, serverVars,
               historyVars, Workers, Labels
<1>11. ASSUME NEW o \in TxOutcome, Pause(o) PROVE TypeOK'
  <2> DEFINE i == cur[Dispatcher]
             new == [mem EXCEPT ![i] = pauseRow(mem[i])]
  <2>1. new \in [Items -> Row]
    <3>1. CASE i \in Items
      BY <3>1, RowOperators DEF TypeOK
    <3>2. CASE i \notin Items
      BY <3>2 DEF TypeOK
    <3>3. QED
      BY <3>1, <3>2
  <2>2. Transaction(new, o) \/ NoTransaction
    BY <1>11 DEF Pause
  <2>3. /\ mem' \in [Items -> Row] /\ disk' \in [Items -> Row]
        /\ faults' \in 0 .. MaxFaults
    BY <2>1, <2>2, TransactionType DEF TypeOK, NoTransaction
  <2>4. QED
    BY <1>11, <2>3 DEF TypeOK, Pause, Finish, serverVars, historyVars, Workers,
                       Labels
<1>12. ASSUME NEW w \in Workers, Send(w) PROVE TypeOK'
  <2>1. Request(w) \in Message
    BY <1>12 DEF TypeOK, ItemHeld, Send, Request, Op, Message
  <2>2. QED
    BY <1>12, <2>1 DEF TypeOK, Send, Goto, fileVars, Labels
<1>13. ASSUME NEW w \in Workers,
              ReceiveTurnId(w) \/ ReceiveRefusal(w) \/ LoseResponse(w)
       PROVE  TypeOK'
  <2>1. pc' \in [Workers -> Labels]
    BY <1>13 DEF TypeOK, ReceiveTurnId, ReceiveRefusal, LoseResponse, Goto,
                 Labels
  <2>2. QED
    BY <1>13, <2>1 DEF TypeOK, ReceiveTurnId, ReceiveRefusal,
             LoseResponse, fileVars, serverVars, historyVars
<1>14. ASSUME NEW w \in Workers, NEW o \in TxOutcome, Claim(w, o) PROVE TypeOK'
  <2> DEFINE i == cur[w]
             new == [mem EXCEPT ![i] = claimRow(mem[i], issued + 1)]
  <2>1. new \in [Items -> Row]
    <3>1. pc[w] = "claim"
      BY <1>14 DEF Claim
    <3>2. i \in Items
      BY <3>1 DEF ItemHeld
    <3>3. mem[i] \in Row /\ issued + 1 \in Nat
      <4>1. mem \in [Items -> Row] /\ issued \in Nat
        BY DEF TypeOK
      <4>2. mem[i] \in Row
        BY <3>2, <4>1
      <4>3. issued + 1 \in Nat
        BY <4>1
      <4>4. QED
        BY <4>2, <4>3
    <3>4. claimRow(mem[i], issued + 1) \in Row
      BY <3>3, RowOperators
    <3>5. QED
      BY <3>4 DEF TypeOK
  <2>2. Transaction(new, o) \/ NoTransaction
    BY <1>14 DEF Claim
  <2>3. /\ mem' \in [Items -> Row] /\ disk' \in [Items -> Row]
        /\ faults' \in 0 .. MaxFaults
    BY <2>1, <2>2, TransactionType DEF TypeOK, NoTransaction
  <2>4. QED
    BY <1>14, <2>3 DEF TypeOK, Claim, Finish, Goto, serverVars, historyVars,
                       Labels
<1>15. ASSUME NEW w \in Workers, NEW o \in TxOutcome, Complete(w, o)
       PROVE  TypeOK'
  <2> DEFINE i == cur[w]
             new == [mem EXCEPT ![i] = completeRow(mem[i])]
  <2>1. new \in [Items -> Row]
    <3>1. CASE i \in Items
      BY <3>1, RowOperators DEF TypeOK
    <3>2. CASE i \notin Items
      BY <3>2 DEF TypeOK
    <3>3. QED
      BY <3>1, <3>2
  <2>2. Transaction(new, o) \/ NoTransaction
    BY <1>15 DEF Complete
  <2>3. /\ mem' \in [Items -> Row] /\ disk' \in [Items -> Row]
        /\ faults' \in 0 .. MaxFaults
    BY <2>1, <2>2, TransactionType DEF TypeOK, NoTransaction
  <2>4. QED
    BY <1>15, <2>3 DEF TypeOK, Complete, Finish, Goto, serverVars, historyVars,
                       Labels
<1>16. ASSUME NEW w \in Workers, NEW o \in TxOutcome, MarkIndeterminate(w, o)
       PROVE  TypeOK'
  <2> DEFINE i == cur[w]
             new == [mem EXCEPT ![i] = markIndeterminateRow(mem[i])]
  <2>1. new \in [Items -> Row]
    <3>1. CASE i \in Items
      BY <3>1, RowOperators DEF TypeOK
    <3>2. CASE i \notin Items
      BY <3>2 DEF TypeOK
    <3>3. QED
      BY <3>1, <3>2
  <2>2. Transaction(new, o) \/ NoTransaction
    BY <1>16 DEF MarkIndeterminate
  <2>3. /\ mem' \in [Items -> Row] /\ disk' \in [Items -> Row]
        /\ faults' \in 0 .. MaxFaults
    BY <2>1, <2>2, TransactionType DEF TypeOK, NoTransaction
  <2>4. QED
    BY <1>16, <2>3 DEF TypeOK, MarkIndeterminate, Finish, serverVars,
                       historyVars, Labels
<1>17. ASSUME NEW w \in Steerers, SteerStep(w) PROVE TypeOK'
  <2>1. \A i \in Items : mem[i].rev \in Nat
    BY DEF TypeOK, Row
  <2>2. ASSUME InspectForSteer(w) PROVE TypeOK'
    BY <2>2 DEF TypeOK, InspectForSteer, Goto, Finish, fileVars, serverVars,
                historyVars, Workers, Labels
  <2>3. ASSUME NEW i \in Items, Steer(w, i) PROVE TypeOK'
    BY <2>1, <2>3 DEF TypeOK, Steer, Goto, fileVars, serverVars, historyVars,
                      Workers, Labels
  <2>4. QED
    BY <1>17, <2>2, <2>3 DEF SteerStep
<1>18. CASE ServerStep
  <2>1. ASSUME NEW m \in wire, Accept(m) \/ Refuse(m) \/ Drop(m) PROVE TypeOK'
    <3>1. CASE Accept(m)
      <4>1. turn' \in [Threads -> {"idle", "running", "waiting-input", "failed"}]
        BY <3>1 DEF TypeOK, Accept
      <4>2. QED
        BY <3>1, <4>1 DEF TypeOK, Accept, ServerFrame, fileVars, serviceVars,
                          historyVars
    <3>2. CASE Refuse(m) \/ Drop(m)
      BY <3>2 DEF TypeOK, Refuse, Drop, ServerFrame, fileVars, serviceVars,
                  historyVars
    <3>3. QED
      BY <2>1, <3>1, <3>2
  <2>2. ASSUME NEW t \in Threads,
               EndTurn(t) \/ FailTurn(t) \/ AskUser(t) \/ AnswerUser(t)
                 \/ OtherTurn(t)
        PROVE  TypeOK'
    <3>1. turn' \in [Threads -> {"idle", "running", "waiting-input", "failed"}]
      BY <2>2 DEF TypeOK, EndTurn, FailTurn, AskUser, AnswerUser, OtherTurn
    <3>2. turns' \in 0 .. MaxTurns
      BY <2>2 DEF TypeOK, EndTurn, FailTurn, AskUser, AnswerUser, OtherTurn
    <3>3. UNCHANGED <<wire, accepted, refused>> /\ ServerFrame
      BY <2>2 DEF EndTurn, FailTurn, AskUser, AnswerUser, OtherTurn
    <3>4. QED
      BY <3>1, <3>2, <3>3 DEF TypeOK, ServerFrame, fileVars, serviceVars,
                              historyVars
  <2>3. QED
    BY <1>18, <2>1, <2>2 DEF ServerStep
<1>19. CASE UNCHANGED vars
  BY <1>19 DEF TypeOK, vars, fileVars, serviceVars, serverVars, historyVars
<1>20. QED
  BY <1>1, <1>2, <1>3, <1>4, <1>5, <1>6, <1>7, <1>8, <1>9, <1>10, <1>11, <1>12,
     <1>13, <1>14, <1>15, <1>16, <1>17, <1>18, <1>19
  DEF Next, UserStep, DispatcherStep, Deliver

(* The initial state has its types. *)
LEMMA TypeInit == Init => TypeOK
<1> SUFFICES ASSUME Init PROVE TypeOK
  OBVIOUS
<1> USE ItemsAssumption, WorkersAssumption, BoundsAssumption,
        MaxFaultsAssumption
<1>1. NoRow \in Row
  BY DEF NoRow, Row, Status, Outcome
<1>2. /\ pc \in [Workers -> Labels] /\ cur \in [Workers -> Items \cup {0}]
      /\ seen \in [Workers -> Nat] /\ key \in [Workers -> Nat]
  BY DEF Init, Labels
<1>3. turn \in [Threads -> {"idle", "running", "waiting-input", "failed"}]
  BY DEF Init
<1>4. mem \in [Items -> Row] /\ disk \in [Items -> Row]
  BY <1>1 DEF Init
<1>5. started \in BOOLEAN
  BY Zenon DEF Init
<1>6. faults \in 0 .. MaxFaults /\ crashes \in 0 .. MaxCrashes
      /\ turns \in 0 .. MaxTurns /\ issued \in Nat
  BY DEF Init
<1>7. QED
  BY <1>2, <1>3, <1>4, <1>5, <1>6 DEF Init, TypeOK

-----------------------------------------------------------------------------
(***************************************************************************)
(* The database                                                            *)
(***************************************************************************)
(* What is true of a row stays true while the histories only grow. *)
LEMMA RowInvMonotone ==
    ASSUME NEW j, NEW row \in Row, RowInv(j, row),
           issued \in Nat, issued' \in Nat, issued <= issued',
           used \subseteq used', removed' = removed, sent' = sent,
           retired \subseteq retired', dismissed \subseteq dismissed',
           accepted \subseteq accepted'
    PROVE  RowInv(j, row)'
<1>1. row.key \in Nat
  BY DEF Row
<1>2. row.key <= issued'
  BY <1>1 DEF RowInv
<1>3. row.status = "completed" =>
        \/ row.key \in dismissed'
        \/ \E m \in accepted' : m.item = j /\ m.key = row.key
  BY Zenon DEF RowInv
<1>4. QED
  BY <1>2, <1>3 DEF RowInv

(* A transaction on one row preserves what is true of all rows if the new row
   satisfies it. *)
LEMMA RowTransaction ==
    ASSUME TypeOK, DatabaseInv(mem), DatabaseInv(disk),
           NEW i \in Items, NEW r \in Row, NEW o \in TxOutcome,
           Transaction([mem EXCEPT ![i] = r], o),
           o # "aborted" => RowInv(i, r)',
           issued' \in Nat, issued <= issued',
           used \subseteq used', removed' = removed, sent' = sent,
           retired \subseteq retired', dismissed \subseteq dismissed',
           accepted \subseteq accepted'
    PROVE  DatabaseInv(mem)' /\ DatabaseInv(disk)'
<1>1. mem \in [Items -> Row] /\ disk \in [Items -> Row] /\ issued \in Nat
  BY DEF TypeOK
<1>2. \A j \in Items : RowInv(j, mem[j]) /\ RowInv(j, disk[j])
  BY DEF DatabaseInv
<1>3. ASSUME NEW j \in Items, NEW row \in Row, RowInv(j, row)
      PROVE  RowInv(j, row)'
  BY <1>1, <1>3, RowInvMonotone
<1>4. /\ \A j \in Items :
           \/ mem'[j] = mem[j]
           \/ j = i /\ mem'[j] = r /\ o # "aborted"
      /\ \A j \in Items :
           \/ disk'[j] = disk[j]
           \/ j # i /\ disk'[j] = mem[j]
           \/ j = i /\ disk'[j] = r /\ o # "aborted"
  BY <1>1 DEF Transaction
<1>5. ASSUME NEW j \in Items PROVE RowInv(j, mem[j])'
  <2>1. CASE mem'[j] = mem[j]
    <3>1. PICK row \in Row : row = mem[j] /\ row = mem'[j] /\ RowInv(j, row)
      BY <1>1, <1>2, <2>1
    <3>2. RowInv(j, row)'
      BY <1>3, <3>1
    <3>3. QED
      BY <3>1, <3>2 DEF RowInv
  <2>2. CASE j = i /\ mem'[j] = r /\ o # "aborted"
    BY <2>2 DEF RowInv
  <2>3. QED
    BY <1>4, <2>1, <2>2
<1>6. ASSUME NEW j \in Items PROVE RowInv(j, disk[j])'
  <2>1. CASE disk'[j] = disk[j] \/ disk'[j] = mem[j]
    <3>1. PICK row \in Row : row = disk'[j] /\ RowInv(j, row)
      BY <1>1, <1>2, <2>1
    <3>2. RowInv(j, row)'
      BY <1>3, <3>1
    <3>3. QED
      BY <3>1, <3>2 DEF RowInv
  <2>2. CASE j = i /\ disk'[j] = r /\ o # "aborted"
    BY <2>2 DEF RowInv
  <2>3. QED
    BY <1>4, <2>1, <2>2
<1>7. QED
  BY <1>5, <1>6 DEF DatabaseInv

(* A step that leaves the databases alone, or copies one over the other, and
   only lets the histories grow, preserves what is true of the rows. *)
LEMMA RowsUntouched ==
    ASSUME TypeOK, DatabaseInv(mem), DatabaseInv(disk),
           mem' \in {mem, disk}, disk' \in {mem, disk},
           issued' = issued, used' = used, removed' = removed, sent' = sent,
           retired' = retired, dismissed' = dismissed,
           accepted \subseteq accepted'
    PROVE  DatabaseInv(mem)' /\ DatabaseInv(disk)'
<1>1. mem \in [Items -> Row] /\ disk \in [Items -> Row] /\ issued \in Nat
  BY DEF TypeOK
<1>2. \A j \in Items : RowInv(j, mem[j]) /\ RowInv(j, disk[j])
  BY DEF DatabaseInv
<1>3. ASSUME NEW j \in Items, NEW row \in Row, RowInv(j, row)
      PROVE  RowInv(j, row)'
  BY <1>1, <1>3, RowInvMonotone
<1>4. ASSUME NEW j \in Items
      PROVE  RowInv(j, mem[j])' /\ RowInv(j, disk[j])'
  <2>1. PICK row \in Row : row = mem'[j] /\ RowInv(j, row)
    BY <1>1, <1>2
  <2>2. PICK row2 \in Row : row2 = disk'[j] /\ RowInv(j, row2)
    BY <1>1, <1>2
  <2>3. RowInv(j, row)' /\ RowInv(j, row2)'
    BY <1>3, <2>1, <2>2
  <2>4. QED
    BY <2>1, <2>2, <2>3 DEF RowInv
<1>5. QED
  BY <1>4 DEF DatabaseInv

(* Every step preserves what is true of the rows, in memory and on disk. *)
LEMMA DatabaseStep ==
    DeliveryInv /\ [Next]_vars => DatabaseInv(mem)' /\ DatabaseInv(disk)'
<1> SUFFICES ASSUME DeliveryInv, [Next]_vars
             PROVE  DatabaseInv(mem)' /\ DatabaseInv(disk)'
  OBVIOUS
<1> DEFINE Goal == DatabaseInv(mem)' /\ DatabaseInv(disk)'
<1>0. /\ TypeOK /\ DatabaseInv(mem) /\ DatabaseInv(disk)
      /\ mem \in [Items -> Row] /\ disk \in [Items -> Row] /\ issued \in Nat
      /\ \A j \in Items : mem[j] \in Row /\ mem[j].key \in Nat
      /\ \A j \in Items : RowInv(j, mem[j])
  <2>1. TypeOK /\ DatabaseInv(mem) /\ DatabaseInv(disk)
    BY DEF DeliveryInv
  <2>2. mem \in [Items -> Row] /\ disk \in [Items -> Row] /\ issued \in Nat
    BY <2>1 DEF TypeOK
  <2>3. \A j \in Items : mem[j] \in Row /\ mem[j].key \in Nat
    BY <2>2 DEF Row
  <2>4. QED
    BY <2>1, <2>2, <2>3 DEF DatabaseInv
<1>1. ASSUME NEW o \in TxOutcome, Start(o) PROVE Goal
  <2> DEFINE new == [i \in Items |-> recoverRow(mem[i])]
  <2>1. disk' \in {new, disk} /\ mem' = disk'
    BY <1>1 DEF Start, StartupTransaction
  <2>2. /\ UNCHANGED <<issued, used, removed, sent, retired, dismissed, accepted>>
    BY <1>1 DEF Start, serverVars, historyVars
  <2>3. ASSUME NEW j \in Items, NEW r \in Row, r = recoverRow(mem[j])
        PROVE  RowInv(j, r)'
    <3>1. /\ r.key = mem[j].key
          /\ r.status \in IF mem[j].status = "delivering"
                          THEN {"indeterminate"} ELSE {mem[j].status}
      BY <1>0, <2>3, RowOperators
    <3>2. RowInv(j, mem[j])
      BY <1>0
    <3>3. QED
      BY <2>2, <3>1, <3>2 DEF RowInv
  <2>4. CASE disk' = new
    <3>1. ASSUME NEW j \in Items
          PROVE  RowInv(j, mem[j])' /\ RowInv(j, disk[j])'
      <4>1. PICK r \in Row : r = recoverRow(mem[j])
        BY <1>0, RowOperators
      <4>2. mem'[j] = r /\ disk'[j] = r
        BY <2>1, <2>4, <4>1
      <4>3. RowInv(j, r)'
        BY <2>3, <4>1
      <4>4. QED
        BY <4>2, <4>3 DEF RowInv
    <3>2. QED
      BY <3>1 DEF DatabaseInv
  <2>5. CASE disk' = disk
    BY <1>0, <2>1, <2>2, <2>5, RowsUntouched
  <2>6. QED
    BY <2>1, <2>4, <2>5
<1>2. CASE Crash
  BY <1>0, <1>2, RowsUntouched DEF Crash, LoseMemory, serverVars
<1>3. CASE FileStep
  BY <1>0, <1>3, RowsUntouched
  DEF FileStep, OtherCommit, ForeignCommit, serviceVars, serverVars, historyVars
<1>4. ASSUME NEW i \in Items, NEW o \in TxOutcome, Add(i, o) PROVE Goal
  <2>0. issued' \in Nat /\ issued <= issued'
    BY <1>0, <1>4 DEF Add, UserFrame, serviceVars
  <2>1. mem[i].status = "absent" /\ mem[i].key = 0
    BY <1>0, <1>4 DEF Add, RowInv
  <2>2. /\ UNCHANGED <<issued, removed, sent, retired, dismissed, accepted>>
        /\ used' = used \cup {i} /\ i \notin used
        /\ Transaction([mem EXCEPT ![i] = NewRow], o)
    BY <1>4 DEF Add, UserFrame, serviceVars, serverVars
  <2>3. removed \subseteq used
    BY DEF DeliveryInv, KeysDrawn
  <2>4. NewRow \in Row /\ NewRow.status = "pending" /\ NewRow.key = 0
    BY <1>0, RowOperators
  <2>5. RowInv(i, mem[i])
    BY <1>0
  <2>6. RowInv(i, NewRow)'
    BY <1>0, <2>1, <2>2, <2>3, <2>4, <2>5 DEF RowInv
  <2>7. QED
    BY <1>0, <2>0, <2>2, <2>4, <2>6, RowTransaction
<1>5. ASSUME NEW i \in Items, NEW o \in TxOutcome, Remove(i, o) PROVE Goal
  <2>0. issued' \in Nat /\ issued <= issued'
    BY <1>0, <1>5 DEF Remove, UserFrame, serviceVars
  <2>1. mem[i].key = 0
    BY <1>5 DEF Remove, Removable
  <2>2. /\ UNCHANGED <<issued, used, sent, retired, dismissed, accepted>>
        /\ removed' = IF o = "ok" THEN removed \cup {i} ELSE removed
        /\ Transaction([mem EXCEPT ![i] = NoRow], o)
    BY <1>5 DEF Remove, UserFrame, serviceVars, serverVars
  <2>3. NoRow \in Row /\ NoRow.status = "absent" /\ NoRow.key = 0
    BY <1>0, RowOperators
  <2>4. RowInv(i, mem[i])
    BY <1>0
  <2>5. RowInv(i, NoRow)'
    BY <1>0, <2>1, <2>2, <2>3, <2>4 DEF RowInv
  <2>6. CASE o # "ok"
    BY <1>0, <2>0, <2>2, <2>3, <2>5, <2>6, RowTransaction
  <2>7. CASE o = "ok"
    <3>1. ASSUME NEW j \in Items
          PROVE  RowInv(j, mem[j])' /\ RowInv(j, disk[j])'
      <4>1. /\ mem' = [mem EXCEPT ![i] = NoRow]
            /\ disk' = [mem EXCEPT ![i] = NoRow]
        BY <2>2, <2>7 DEF Transaction
      <4>2. CASE j = i
        <5>1. mem'[j] = NoRow /\ disk'[j] = NoRow
          BY <1>0, <4>1, <4>2
        <5>2. QED
          BY <2>5, <4>2, <5>1 DEF RowInv
      <4>3. CASE j # i
        <5>1. mem'[j] = mem[j] /\ disk'[j] = mem[j]
          BY <1>0, <4>1, <4>3
        <5>2. j \in removed' => j \in removed
          BY <2>2, <4>3
        <5>3. RowInv(j, mem[j])
          BY <1>0
        <5>4. QED
          BY <2>2, <5>1, <5>2, <5>3 DEF RowInv
      <4>4. QED
        BY <4>2, <4>3
    <3>2. QED
      BY <3>1 DEF DatabaseInv
  <2>8. QED
    BY <2>6, <2>7
<1>6. ASSUME NEW i \in Items, NEW o \in TxOutcome, AcknowledgeRetry(i, o)
      PROVE  Goal
  <2>1. /\ UNCHANGED <<issued, used, removed, sent, dismissed, accepted>>
        /\ retired' = IF o = "aborted" THEN retired
                                       ELSE retired \cup {mem[i].key}
        /\ Transaction([mem EXCEPT ![i] = retryRow(mem[i])], o)
        /\ mem[i].status = "indeterminate"
    BY <1>6 DEF AcknowledgeRetry, Acknowledgeable, UserFrame, serviceVars,
                serverVars
  <2>2. PICK r \in Row : r = retryRow(mem[i])
    BY <1>0, RowOperators
  <2>3. r.status = "pending" /\ r.key = 0
    BY <1>0, <2>2, RowOperators
  <2>4. RowInv(i, mem[i])
    BY <1>0
  <2>5. o # "aborted" => RowInv(i, r)'
    BY <1>0, <2>1, <2>3, <2>4 DEF RowInv
  <2>6. QED
    <3>1. issued' \in Nat /\ issued <= issued'
      BY <1>0, <2>1
    <3>2. Transaction([mem EXCEPT ![i] = r], o)
      BY <2>1, <2>2
    <3>3. QED
      BY <1>0, <2>1, <2>5, <3>1, <3>2, RowTransaction
<1>7. ASSUME NEW i \in Items, NEW o \in TxOutcome, AcknowledgeDismiss(i, o)
      PROVE  Goal
  <2>1. /\ UNCHANGED <<issued, used, removed, sent, retired, accepted>>
        /\ dismissed' = IF o = "aborted" THEN dismissed
                                         ELSE dismissed \cup {mem[i].key}
        /\ Transaction([mem EXCEPT ![i] = dismissRow(mem[i])], o)
        /\ mem[i].status = "indeterminate"
    BY <1>7 DEF AcknowledgeDismiss, Acknowledgeable, UserFrame, serviceVars,
                serverVars
  <2>2. PICK r \in Row : r = dismissRow(mem[i])
    BY <1>0, RowOperators
  <2>3. r.status = "completed" /\ r.key = mem[i].key
    BY <1>0, <2>2, RowOperators
  <2>4. RowInv(i, mem[i])
    BY <1>0
  <2>5. o # "aborted" => RowInv(i, r)'
    BY <1>0, <2>1, <2>3, <2>4 DEF RowInv
  <2>6. QED
    <3>1. issued' \in Nat /\ issued <= issued'
      BY <1>0, <2>1
    <3>2. Transaction([mem EXCEPT ![i] = r], o)
      BY <2>1, <2>2
    <3>3. QED
      BY <1>0, <2>1, <2>5, <3>1, <3>2, RowTransaction
<1>8. CASE \/ DispatchNext \/ EnterGate \/ InspectForDispatch
           \/ \E w \in Steerers : SteerStep(w)
           \/ \E w \in Workers : ReceiveTurnId(w) \/ ReceiveRefusal(w)
                                   \/ LoseResponse(w)
  <2>1. UNCHANGED <<mem, disk, issued, used, removed, sent, retired, dismissed,
                    accepted>>
    BY <1>8 DEF DispatchNext, EnterGate, InspectForDispatch, SteerStep,
                InspectForSteer, Steer, ReceiveTurnId, ReceiveRefusal,
                LoseResponse, Finish, fileVars, serverVars, historyVars
  <2>2. QED
    BY <1>0, <2>1, RowsUntouched
<1>9. ASSUME NEW o \in TxOutcome, Pause(o) PROVE Goal
  <2>1. UNCHANGED <<issued, used, removed, sent, retired, dismissed, accepted>>
    BY <1>9 DEF Pause, serverVars, historyVars
  <2>2. PICK i \in Items : i = cur[Dispatcher]
    BY <1>9 DEF Pause, DeliveryInv, ItemHeld, Workers
  <2>3. CASE NoTransaction
    BY <1>0, <2>1, <2>3, RowsUntouched DEF NoTransaction
  <2>4. CASE Pausable(i) /\ Transaction([mem EXCEPT ![i] = pauseRow(mem[i])], o)
    <3>1. PICK r \in Row : r = pauseRow(mem[i])
      BY <1>0, RowOperators
    <3>2. r.status = "paused" /\ r.key = mem[i].key
      BY <1>0, <3>1, RowOperators
    <3>3. RowInv(i, mem[i])
      BY <1>0
    <3>4. RowInv(i, r)'
      BY <1>0, <2>1, <2>4, <3>2, <3>3 DEF RowInv, Pausable
    <3>5. issued' \in Nat /\ issued <= issued'
      BY <1>0, <2>1
    <3>6. Transaction([mem EXCEPT ![i] = r], o)
      BY <2>4, <3>1
    <3>7. QED
      BY <1>0, <2>1, <3>4, <3>5, <3>6, RowTransaction
  <2>5. QED
    BY <1>9, <2>2, <2>3, <2>4 DEF Pause
<1>10. ASSUME NEW w \in Workers, Send(w) PROVE Goal
  <2>1. /\ UNCHANGED <<mem, disk, issued, used, removed, retired, dismissed,
                       accepted>>
        /\ sent' = sent \cup {Request(w)}
    BY <1>10 DEF Send, fileVars
  <2>2. PICK i \in Items : i = cur[w]
    BY <1>10 DEF Send, DeliveryInv, ItemHeld
  <2>3. /\ mem[i].key = key[w] /\ disk[i].key = key[w]
    BY <1>10, <2>2 DEF Send, DeliveryInv, SendReady
  <2>4. Request(w).item = i /\ Request(w).key = key[w]
    BY <2>2 DEF Request
  <2>5. ASSUME NEW j \in Items
        PROVE  RowInv(j, mem[j])' /\ RowInv(j, disk[j])'
    <3>1. RowInv(j, mem[j]) /\ RowInv(j, disk[j])
      BY <1>0 DEF DatabaseInv
    <3>2. QED
      BY <2>1, <2>3, <2>4, <3>1 DEF RowInv
  <2>6. QED
    BY <2>5 DEF DatabaseInv
<1>11. ASSUME NEW w \in Workers, NEW o \in TxOutcome, Claim(w, o) PROVE Goal
  <2>1. /\ UNCHANGED <<used, removed, sent, retired, dismissed, accepted>>
    BY <1>11 DEF Claim, serverVars, historyVars
  <2>2. PICK i \in Items : i = cur[w]
    BY <1>11 DEF Claim, DeliveryInv, ItemHeld
  <2>3. CASE ~Claimable(w)
    <3>1. NoTransaction /\ issued' = issued
      BY <1>11, <2>3 DEF Claim
    <3>2. QED
      BY <1>0, <2>1, <3>1, RowsUntouched DEF NoTransaction
  <2>4. CASE Claimable(w)
    <3>1. /\ Transaction([mem EXCEPT ![i] = claimRow(mem[i], issued + 1)], o)
          /\ issued' = issued + 1
      BY <1>11, <2>2, <2>4 DEF Claim
    <3>2. issued' \in Nat /\ issued <= issued'
      BY <1>0, <3>1
    <3>3. PICK r \in Row : r = claimRow(mem[i], issued + 1)
      BY <1>0, <3>1, <3>2, RowOperators
    <3>4. r.status = "delivering" /\ r.key = issued'
      BY <3>1, <3>3 DEF claimRow, updateQueueStatus
    <3>5. mem[i].status \in {"pending", "paused"}
      BY <2>2, <2>4 DEF Claimable
    <3>6. RowInv(i, mem[i])
      BY <1>0
    <3>7. \A m \in sent : m.key # 0
      BY DEF DeliveryInv, KeysDrawn
    <3>8. RowInv(i, r)'
      BY <1>0, <2>1, <3>2, <3>4, <3>5, <3>6, <3>7 DEF RowInv
    <3>9. QED
      BY <1>0, <2>1, <3>1, <3>2, <3>3, <3>8, RowTransaction
  <2>5. QED
    BY <2>3, <2>4
<1>12. ASSUME NEW w \in Workers, NEW o \in TxOutcome, Complete(w, o) PROVE Goal
  <2>1. UNCHANGED <<issued, used, removed, sent, retired, dismissed, accepted>>
    BY <1>12 DEF Complete, Finish, serverVars, historyVars
  <2>2. PICK i \in Items : i = cur[w]
    BY <1>12 DEF Complete, DeliveryInv, ItemHeld
  <2>3. CASE ~Completable(w)
    BY <1>0, <1>12, <2>1, <2>3, RowsUntouched DEF Complete, NoTransaction
  <2>4. CASE Completable(w)
    <3>1. /\ Transaction([mem EXCEPT ![i] = completeRow(mem[i])], o)
          /\ mem[i].key = key[w]
      BY <1>12, <2>2, <2>4 DEF Complete, Completable
    <3>2. PICK r \in Row : r = completeRow(mem[i])
      BY <1>0, RowOperators
    <3>3. r.key = mem[i].key /\ r.status \in {"completed", mem[i].status}
      BY <1>0, <3>2, RowOperators
    <3>4. Request(w) \in accepted /\ Request(w).item = i
          /\ Request(w).key = mem[i].key
      BY <1>12, <2>2, <3>1 DEF Complete, DeliveryInv, CompleteReady, Request
    <3>5. RowInv(i, mem[i])
      BY <1>0
    <3>6. mem[i].key # 0
      BY <1>12, <3>1 DEF Complete, DeliveryInv, KeyHeld
    <3>7. mem[i].status # "absent" /\ i \in used /\ i \notin removed
      BY <3>5, <3>6 DEF RowInv
    <3>8. RowInv(i, r)'
      BY <1>0, <2>1, <3>3, <3>4, <3>5, <3>6, <3>7 DEF RowInv
    <3>9. issued' \in Nat /\ issued <= issued'
      BY <1>0, <2>1
    <3>10. Transaction([mem EXCEPT ![i] = r], o)
      BY <3>1, <3>2
    <3>11. QED
      BY <1>0, <2>1, <3>8, <3>9, <3>10, RowTransaction
  <2>5. QED
    BY <2>3, <2>4
<1>13. ASSUME NEW w \in Workers, NEW o \in TxOutcome, MarkIndeterminate(w, o)
       PROVE  Goal
  <2>1. UNCHANGED <<issued, used, removed, sent, retired, dismissed, accepted>>
    BY <1>13 DEF MarkIndeterminate, Finish, serverVars, historyVars
  <2>2. PICK i \in Items : i = cur[w]
    BY <1>13 DEF MarkIndeterminate, DeliveryInv, ItemHeld
  <2>3. CASE NoTransaction
    BY <1>0, <2>1, <2>3, RowsUntouched DEF NoTransaction
  <2>4. CASE /\ Markable(w)
             /\ Transaction([mem EXCEPT ![i] = markIndeterminateRow(mem[i])], o)
    <3>1. PICK r \in Row : r = markIndeterminateRow(mem[i])
      BY <1>0, RowOperators
    <3>2. r.key = mem[i].key /\ r.status \in {"indeterminate", mem[i].status}
      BY <1>0, <3>1, RowOperators
    <3>3. RowInv(i, mem[i])
      BY <1>0
    <3>4. RowInv(i, r)'
      <4>1. mem[i].key # 0
        BY <1>13, <2>2, <2>4 DEF MarkIndeterminate, Markable, DeliveryInv, KeyHeld
      <4>2. mem[i].status # "absent" /\ i \in used /\ i \notin removed
        BY <3>3, <4>1 DEF RowInv
      <4>3. QED
        BY <1>0, <2>1, <3>2, <3>3, <4>1, <4>2 DEF RowInv
    <3>5. issued' \in Nat /\ issued <= issued'
      BY <1>0, <2>1
    <3>6. Transaction([mem EXCEPT ![i] = r], o)
      BY <2>4, <3>1
    <3>7. QED
      BY <1>0, <2>1, <3>4, <3>5, <3>6, RowTransaction
  <2>5. QED
    BY <1>13, <2>2, <2>3, <2>4 DEF MarkIndeterminate
<1>14. CASE ServerStep
  <2>1. /\ UNCHANGED <<mem, disk, issued, used, removed, sent, retired,
                       dismissed>>
        /\ accepted \subseteq accepted'
    BY <1>14 DEF ServerStep, Accept, Refuse, Drop, EndTurn, FailTurn, AskUser,
                 AnswerUser, OtherTurn, ServerFrame, fileVars, serviceVars,
                 historyVars
  <2>2. QED
    BY <1>0, <2>1, RowsUntouched
<1>15. CASE UNCHANGED vars
  BY <1>0, <1>15, RowsUntouched
  DEF vars, fileVars, serviceVars, serverVars, historyVars
<1>16. QED
  BY <1>1, <1>2, <1>3, <1>4, <1>5, <1>6, <1>7, <1>8, <1>9, <1>10, <1>11, <1>12,
     <1>13, <1>14, <1>15
  DEF Next, UserStep, DispatcherStep, Deliver

-----------------------------------------------------------------------------
(***************************************************************************)
(* The workers                                                             *)
(***************************************************************************)
(* Every step keeps the items, the gate and the claims with their workers. *)
LEMMA WorkersStep ==
    DeliveryInv /\ [Next]_vars => ItemHeld' /\ GateHeld' /\ KeyHeld' /\ DownIsIdle'
<1> SUFFICES ASSUME DeliveryInv, [Next]_vars
             PROVE  ItemHeld' /\ GateHeld' /\ KeyHeld' /\ DownIsIdle'
  OBVIOUS
<1> DEFINE Goal == ItemHeld' /\ GateHeld' /\ KeyHeld' /\ DownIsIdle'
<1>0. /\ ItemHeld /\ GateHeld /\ KeyHeld /\ DownIsIdle
      /\ pc \in [Workers -> Labels] /\ cur \in [Workers -> Items \cup {0}]
      /\ key \in [Workers -> Nat] /\ issued \in Nat
  BY DEF DeliveryInv, TypeOK
<1>1. ASSUME NEW o \in TxOutcome, Start(o) PROVE Goal
  BY <1>0, <1>1 DEF ItemHeld, GateHeld, KeyHeld, DownIsIdle,
      Start, StartupTransaction
<1>2. CASE Crash
  BY <1>0, <1>2 DEF ItemHeld, GateHeld, KeyHeld, DownIsIdle,
      Crash, LoseMemory
<1>3. CASE FileStep
  BY <1>0, <1>3 DEF ItemHeld, GateHeld, KeyHeld, DownIsIdle,
      FileStep, OtherCommit, ForeignCommit, serviceVars
<1>4. CASE UserStep
  BY <1>0, <1>4 DEF ItemHeld, GateHeld, KeyHeld, DownIsIdle,
      UserStep, Add, Remove, AcknowledgeRetry, AcknowledgeDismiss,
                    UserFrame, serviceVars
<1>5. CASE DispatchNext
  BY <1>0, <1>5 DEF ItemHeld, GateHeld, KeyHeld, DownIsIdle,
      DispatchNext, Goto, Workers
<1>6. CASE EnterGate
  BY <1>0, <1>6, WorkersAssumption DEF ItemHeld, GateHeld, KeyHeld, DownIsIdle,
      EnterGate, Goto, Workers, fileVars
<1>7. CASE InspectForDispatch
  BY <1>0, <1>7 DEF ItemHeld, GateHeld, KeyHeld, DownIsIdle,
      InspectForDispatch, Goto, Finish, Workers
<1>8. ASSUME NEW o \in TxOutcome, Pause(o) PROVE Goal
  BY <1>0, <1>8 DEF ItemHeld, GateHeld, KeyHeld, DownIsIdle,
      Pause, Finish, Workers
<1>9. ASSUME NEW w \in Workers, Send(w) PROVE Goal
  BY <1>0, <1>9 DEF ItemHeld, GateHeld, KeyHeld, DownIsIdle,
      Send, Goto
<1>10. ASSUME NEW w \in Workers,
              ReceiveTurnId(w) \/ ReceiveRefusal(w) \/ LoseResponse(w)
       PROVE  Goal
  BY <1>0, <1>10 DEF ItemHeld, GateHeld, KeyHeld, DownIsIdle,
      ReceiveTurnId, ReceiveRefusal, LoseResponse, Goto
<1>11. ASSUME NEW w \in Workers, NEW o \in TxOutcome, Claim(w, o) PROVE Goal
  BY <1>0, <1>11 DEF ItemHeld, GateHeld, KeyHeld, DownIsIdle,
      Claim, Finish, Goto
<1>12. ASSUME NEW w \in Workers, NEW o \in TxOutcome, Complete(w, o) PROVE Goal
  BY <1>0, <1>12 DEF ItemHeld, GateHeld, KeyHeld, DownIsIdle,
      Complete, Finish, Goto
<1>13. ASSUME NEW w \in Workers, NEW o \in TxOutcome, MarkIndeterminate(w, o)
       PROVE  Goal
  BY <1>0, <1>13 DEF ItemHeld, GateHeld, KeyHeld, DownIsIdle,
      MarkIndeterminate, Finish
<1>14. ASSUME NEW w \in Steerers, SteerStep(w) PROVE Goal
  BY <1>0, <1>14, WorkersAssumption
  DEF ItemHeld, GateHeld, KeyHeld, DownIsIdle,
      SteerStep, InspectForSteer, Steer, Finish, Goto, Workers
<1>15. CASE ServerStep
  BY <1>0, <1>15
  DEF ItemHeld, GateHeld, KeyHeld, DownIsIdle,
      ServerStep, Accept, Refuse, Drop, EndTurn, FailTurn, AskUser, AnswerUser,
      OtherTurn, ServerFrame, serviceVars, fileVars
<1>16. CASE UNCHANGED vars
  BY <1>0, <1>16 DEF ItemHeld, GateHeld, KeyHeld, DownIsIdle,
      vars, serviceVars, fileVars
<1>17. QED
  BY <1>1, <1>2, <1>3, <1>4, <1>5, <1>6, <1>7, <1>8, <1>9, <1>10, <1>11, <1>12,
     <1>13, <1>14, <1>15, <1>16
  DEF Next, DispatcherStep, Deliver

-----------------------------------------------------------------------------
(***************************************************************************)
(* Identities                                                              *)
(***************************************************************************)
(* A transaction on another row keeps a row that is open for delivery. *)
LEMMA OpenRowKept ==
    ASSUME mem \in [Items -> Row], disk \in [Items -> Row],
           NEW i \in Items, NEW r \in Row, NEW o \in TxOutcome,
           Transaction([mem EXCEPT ![i] = r], o),
           NEW c \in Items, c # i,
           mem[c].status = "delivering", mem[c].key = issued,
           disk[c].status = "delivering", disk[c].key = issued
    PROVE  /\ mem'[c].status = "delivering" /\ mem'[c].key = issued
           /\ disk'[c].status = "delivering" /\ disk'[c].key = issued
<1>1. mem'[c] = mem[c] /\ disk'[c] \in {disk[c], mem[c]}
  BY DEF Transaction
<1>2. QED
  BY <1>1

(* Identities stay unique, a worker about to send keeps the newest one, and no
   step sends a second request for an item without a retry. *)
LEMMA IdentityStep ==
    DeliveryInv /\ [Next]_vars =>
        KeysDrawn' /\ SendReady' /\ CompleteReady' /\ AtMostOnce'
<1> SUFFICES ASSUME DeliveryInv, [Next]_vars
             PROVE  KeysDrawn' /\ SendReady' /\ CompleteReady' /\ AtMostOnce'
  OBVIOUS
<1> DEFINE Goal == KeysDrawn' /\ SendReady' /\ CompleteReady' /\ AtMostOnce'
<1>0. /\ ItemHeld /\ GateHeld /\ DownIsIdle
      /\ KeysDrawn /\ SendReady /\ CompleteReady /\ AtMostOnce
      /\ mem \in [Items -> Row] /\ disk \in [Items -> Row] /\ issued \in Nat
      /\ pc \in [Workers -> Labels] /\ cur \in [Workers -> Items \cup {0}]
      /\ key \in [Workers -> Nat] /\ sent \subseteq Message
  BY DEF DeliveryInv, TypeOK
<1>1. ASSUME NEW o \in TxOutcome, Start(o) PROVE Goal
  <2>1. \A w \in Workers : pc'[w] \notin {"send", "complete"}
    BY <1>0, <1>1 DEF Start, DownIsIdle
  <2>2. UNCHANGED <<removed, used, sent, issued, retired>>
    BY <1>1 DEF Start, historyVars
  <2>3. QED
    BY <1>0, <2>1, <2>2 DEF KeysDrawn, SendReady, CompleteReady, AtMostOnce
<1>2. CASE Crash
  <2>1. \A w \in Workers : pc'[w] \notin {"send", "complete"}
    BY <1>2 DEF Crash
  <2>2. UNCHANGED <<removed, used, sent, issued, retired>>
    BY <1>2 DEF Crash
  <2>3. QED
    BY <1>0, <2>1, <2>2 DEF KeysDrawn, SendReady, CompleteReady, AtMostOnce
<1>3. CASE FileStep
  <2>1. UNCHANGED <<serviceVars, serverVars, historyVars>>
    BY <1>3 DEF FileStep
  <2>2. mem' \in {mem, disk} /\ disk' \in {mem, disk}
    BY <1>3 DEF FileStep, OtherCommit, ForeignCommit
  <2>3. QED
    BY <1>0, <2>1, <2>2
    DEF KeysDrawn, SendReady, CompleteReady, AtMostOnce, Request, serviceVars,
        serverVars, historyVars
<1>4. ASSUME NEW i \in Items, NEW o \in TxOutcome, NEW r \in Row,
             Transaction([mem EXCEPT ![i] = r], o),
             mem[i].status # "delivering",
             UNCHANGED <<serviceVars, serverVars, sent>>,
             retired \subseteq retired', removed' \subseteq used'
      PROVE  Goal
  <2>1. KeysDrawn' /\ CompleteReady' /\ AtMostOnce'
    BY <1>0, <1>4
    DEF KeysDrawn, CompleteReady, AtMostOnce, Request, serviceVars, serverVars
  <2>2. ASSUME NEW w \in Workers, pc'[w] = "send"
        PROVE  /\ key'[w] = issued' /\ issued' # 0
               /\ \A m \in sent' : m.key # issued'
               /\ mem'[cur'[w]].status = "delivering"
               /\ mem'[cur'[w]].key = issued'
               /\ disk'[cur'[w]].status = "delivering"
               /\ disk'[cur'[w]].key = issued'
    <3>1. /\ pc[w] = "send" /\ cur'[w] = cur[w] /\ key'[w] = key[w]
          /\ issued' = issued /\ sent' = sent
      BY <1>4, <2>2 DEF serviceVars
    <3>2. PICK c \in Items : c = cur[w]
      BY <1>0, <3>1 DEF ItemHeld
    <3>3. /\ key[w] = issued /\ issued # 0 /\ \A m \in sent : m.key # issued
          /\ mem[c].status = "delivering" /\ mem[c].key = issued
          /\ disk[c].status = "delivering" /\ disk[c].key = issued
      BY <1>0, <3>1, <3>2 DEF SendReady
    <3>4. /\ mem'[c].status = "delivering" /\ mem'[c].key = issued
          /\ disk'[c].status = "delivering" /\ disk'[c].key = issued
      BY <1>0, <1>4, <3>3, OpenRowKept
    <3>5. QED
      BY <3>1, <3>2, <3>3, <3>4
  <2>3. QED
    BY <2>1, <2>2 DEF SendReady
<1>5. CASE UserStep
  <2>0. removed \subseteq used
    BY <1>0 DEF KeysDrawn
  <2>1. ASSUME NEW i \in Items, NEW o \in TxOutcome, Add(i, o) PROVE Goal
    <3>1. mem[i].status # "delivering"
      BY <2>1 DEF Add, DeliveryInv, DatabaseInv, RowInv
    <3>2. NewRow \in Row
      BY <1>0, RowOperators
    <3>3. QED
      BY <1>4, <2>0, <2>1, <3>1, <3>2 DEF Add, UserFrame
  <2>2. ASSUME NEW i \in Items, NEW o \in TxOutcome, Remove(i, o) PROVE Goal
    <3>1. mem[i].status # "delivering"
      BY <2>2 DEF Remove, Removable
    <3>2. i \in used
      BY <2>2 DEF Remove, Removable, DeliveryInv, DatabaseInv, RowInv
    <3>3. NoRow \in Row
      BY <1>0, RowOperators
    <3>4. removed' \subseteq used'
      BY <2>0, <2>2, <3>2 DEF Remove
    <3>5. QED
      BY <1>4, <2>2, <3>1, <3>3, <3>4 DEF Remove, UserFrame
  <2>3. ASSUME NEW i \in Items, NEW o \in TxOutcome, AcknowledgeRetry(i, o)
        PROVE  Goal
    <3>1. mem[i].status # "delivering"
      BY <2>3 DEF AcknowledgeRetry, Acknowledgeable
    <3>2. retryRow(mem[i]) \in Row
      BY <1>0, RowOperators
    <3>3. retired \subseteq retired'
      BY <2>3 DEF AcknowledgeRetry
    <3>4. QED
      BY <1>4, <2>0, <2>3, <3>1, <3>2, <3>3 DEF AcknowledgeRetry, UserFrame
  <2>4. ASSUME NEW i \in Items, NEW o \in TxOutcome, AcknowledgeDismiss(i, o)
        PROVE  Goal
    <3>1. mem[i].status # "delivering"
      BY <2>4 DEF AcknowledgeDismiss, Acknowledgeable
    <3>2. dismissRow(mem[i]) \in Row
      BY <1>0, RowOperators
    <3>3. QED
      BY <1>4, <2>0, <2>4, <3>1, <3>2 DEF AcknowledgeDismiss, UserFrame
  <2>5. QED
    BY <1>5, <2>1, <2>2, <2>3, <2>4 DEF UserStep
(* A worker's own step: no other worker is past the gate. *)
<1>6. ASSUME NEW w \in Workers, gate = w,
             \A v \in Workers : v # w => pc'[v] = pc[v],
             pc'[w] \notin {"send", "complete"},
             UNCHANGED <<removed, used, sent, retired, accepted>>,
             issued' \in Nat, issued <= issued'
      PROVE  Goal
  <2>1. \A v \in Workers : pc'[v] \notin {"send", "complete"}
    BY <1>0, <1>6 DEF GateHeld
  <2>2. KeysDrawn'
    <3>1. \A m \in sent : m.key \in Nat
      BY <1>0 DEF Message
    <3>2. QED
      BY <1>0, <1>6, <3>1 DEF KeysDrawn
  <2>3. QED
    BY <1>0, <1>6, <2>1, <2>2 DEF SendReady, CompleteReady, AtMostOnce
(* A step of a worker that neither sends nor answers, and leaves the others. *)
<1>7. ASSUME NEW w \in Workers, pc'[w] \notin {"send", "complete"},
             \A v \in Workers : v # w => pc'[v] = pc[v],
             \A v \in Workers : v # w => cur'[v] = cur[v],
             UNCHANGED <<mem, disk, key, issued, removed, used, sent, retired,
                         accepted>>
      PROVE  Goal
  <2>1. KeysDrawn' /\ AtMostOnce'
    BY <1>0, <1>7 DEF KeysDrawn, AtMostOnce
  <2>2. SendReady'
    BY <1>0, <1>7 DEF SendReady
  <2>3. CompleteReady'
    BY <1>0, <1>7 DEF CompleteReady, Request
  <2>4. QED
    BY <2>1, <2>2, <2>3
<1>8. CASE DispatchNext \/ EnterGate
  BY <1>0, <1>7, <1>8
  DEF DispatchNext, EnterGate, Goto, fileVars, serverVars, historyVars, Workers
<1>9. ASSUME NEW w \in Steerers, SteerStep(w) PROVE Goal
  <2>1. w \in Workers
    BY DEF Workers
  <2>2. CASE \E i \in Items : Steer(w, i)
    BY <1>0, <1>7, <2>1, <2>2
    DEF Steer, Goto, fileVars, serverVars, historyVars
  <2>3. CASE InspectForSteer(w)
    <3>1. gate = w
      BY <1>0, <2>1, <2>3 DEF InspectForSteer, GateHeld
    <3>2. /\ pc'[w] \notin {"send", "complete"}
          /\ \A v \in Workers : v # w => pc'[v] = pc[v]
          /\ UNCHANGED <<removed, used, sent, retired, accepted, issued>>
      BY <1>0, <2>1, <2>3
      DEF InspectForSteer, Goto, Finish, serverVars, historyVars
    <3>3. QED
      BY <1>0, <1>6, <2>1, <3>1, <3>2
  <2>4. QED
    BY <1>9, <2>2, <2>3 DEF SteerStep
<1>10. CASE InspectForDispatch
  <2>1. Dispatcher \in Workers
    BY DEF Workers
  <2>2. gate = Dispatcher
    BY <1>0, <1>10, <2>1 DEF InspectForDispatch, GateHeld
  <2>3. /\ pc'[Dispatcher] \notin {"send", "complete"}
        /\ \A v \in Workers : v # Dispatcher => pc'[v] = pc[v]
        /\ UNCHANGED <<removed, used, sent, retired, accepted, issued>>
    BY <1>0, <1>10, <2>1
    DEF InspectForDispatch, Goto, Finish, serverVars, historyVars
  <2>4. QED
    BY <1>0, <1>6, <2>1, <2>2, <2>3
<1>11. ASSUME NEW o \in TxOutcome, Pause(o) PROVE Goal
  <2>1. Dispatcher \in Workers
    BY DEF Workers
  <2>2. gate = Dispatcher
    BY <1>0, <1>11, <2>1 DEF Pause, GateHeld
  <2>3. /\ pc'[Dispatcher] \notin {"send", "complete"}
        /\ \A v \in Workers : v # Dispatcher => pc'[v] = pc[v]
        /\ UNCHANGED <<removed, used, sent, retired, accepted, issued>>
    BY <1>0, <1>11, <2>1 DEF Pause, Goto, Finish, serverVars, historyVars
  <2>4. QED
    BY <1>0, <1>6, <2>1, <2>2, <2>3
<1>12. ASSUME NEW w \in Workers, NEW o \in TxOutcome,
              \/ ReceiveRefusal(w) \/ LoseResponse(w)
              \/ Complete(w, o) \/ MarkIndeterminate(w, o)
       PROVE  Goal
  <2>1. gate = w
    BY <1>0, <1>12
    DEF ReceiveRefusal, LoseResponse, Complete, MarkIndeterminate, GateHeld
  <2>2. /\ pc'[w] \notin {"send", "complete"}
        /\ \A v \in Workers : v # w => pc'[v] = pc[v]
        /\ UNCHANGED <<removed, used, sent, retired, accepted, issued>>
    BY <1>0, <1>12
    DEF ReceiveRefusal, LoseResponse, Complete, MarkIndeterminate, Goto, Finish,
        serverVars, historyVars
  <2>3. QED
    BY <1>0, <1>6, <2>1, <2>2
<1>13. ASSUME NEW w \in Workers, ReceiveTurnId(w) PROVE Goal
  <2>1. gate = w /\ pc[w] = "await" /\ Request(w) \in accepted
    BY <1>0, <1>13 DEF ReceiveTurnId, GateHeld
  <2>2. /\ pc' = [pc EXCEPT ![w] = "complete"]
        /\ UNCHANGED <<mem, disk, cur, key, issued, removed, used, sent, retired,
                       accepted>>
    BY <1>13 DEF ReceiveTurnId, Goto, fileVars, serverVars, historyVars
  <2>3. \A v \in Workers : v # w => pc'[v] \notin {"send", "complete"}
    BY <1>0, <2>1, <2>2 DEF GateHeld
  <2>4. KeysDrawn' /\ AtMostOnce'
    BY <1>0, <2>2 DEF KeysDrawn, AtMostOnce
  <2>5. SendReady'
    BY <1>0, <2>2, <2>3 DEF SendReady
  <2>6. CompleteReady'
    BY <1>0, <2>1, <2>2, <2>3 DEF CompleteReady, Request
  <2>7. QED
    BY <2>4, <2>5, <2>6
<1>14. ASSUME NEW w \in Workers, Send(w) PROVE Goal
  <2>1. gate = w /\ pc[w] = "send"
    BY <1>0, <1>14 DEF Send, GateHeld
  <2>2. /\ pc' = [pc EXCEPT ![w] = "await"]
        /\ UNCHANGED <<mem, disk, cur, key, issued, removed, used, retired,
                       accepted>>
        /\ sent' = sent \cup {Request(w)}
    BY <1>14 DEF Send, Goto, fileVars
  <2>3. \A v \in Workers : pc'[v] \notin {"send", "complete"}
    BY <1>0, <2>1, <2>2 DEF GateHeld
  <2>4. PICK c \in Items : c = cur[w]
    BY <1>0, <2>1 DEF ItemHeld
  <2>5. PICK n \in Message : n = Request(w)
    <3>1. key[w] \in Nat /\ cur[w] \in Items
      BY <1>0, <2>4
    <3>2. Op(w) \in {"turn/start", "turn/steer"}
      BY DEF Op
    <3>3. Request(w) \in Message
      BY <3>1, <3>2 DEF Request, Message
    <3>4. QED
      BY <3>3
  <2>6. n.item = c /\ n.key = issued
    BY <1>0, <2>1, <2>4, <2>5 DEF Request, SendReady
  <2>7. issued # 0 /\ disk[c].key = issued /\ \A m \in sent : m.key # issued
    BY <1>0, <2>1, <2>4 DEF SendReady
  <2>8. \A m \in sent : m.key \in Nat /\ m.key # 0 /\ m.key <= issued
    BY <1>0 DEF KeysDrawn, Message
  <2>9. \A m \in sent : m.item = c => m.key \in retired
    <3>1. RowInv(c, disk[c])
      BY DEF DeliveryInv, DatabaseInv
    <3>2. QED
      BY <2>7, <3>1 DEF RowInv
  <2>10. sent' = sent \cup {n}
    BY <2>2, <2>5
  <2>11. KeysDrawn'
    BY <1>0, <2>2, <2>6, <2>7, <2>8, <2>10 DEF KeysDrawn
  <2>12. AtMostOnce'
    <3>1. SUFFICES ASSUME NEW m \in sent', NEW k \in sent', m # k,
                          m.item = k.item
                   PROVE  m.key # k.key /\ (m.key < k.key => m.key \in retired)
      BY <2>2 DEF AtMostOnce
    <3>2. CASE m \in sent /\ k \in sent
      BY <1>0, <3>1, <3>2 DEF AtMostOnce
    <3>3. CASE m \in sent /\ k = n
      BY <2>6, <2>7, <2>9, <3>1, <3>3
    <3>4. CASE m = n /\ k \in sent
      BY <1>0, <2>6, <2>7, <2>8, <3>4
    <3>5. QED
      BY <2>10, <3>1, <3>2, <3>3, <3>4
  <2>13. QED
    BY <2>3, <2>11, <2>12 DEF SendReady, CompleteReady
<1>15. ASSUME NEW w \in Workers, NEW o \in TxOutcome, Claim(w, o) PROVE Goal
  <2>1. gate = w /\ pc[w] = "claim"
    BY <1>0, <1>15 DEF Claim, GateHeld
  <2>2. UNCHANGED <<removed, used, sent, retired, accepted>>
    BY <1>15 DEF Claim, serverVars, historyVars
  <2>3. CASE ~Claimable(w) \/ o # "ok"
    <3>1. /\ pc'[w] \notin {"send", "complete"}
          /\ \A v \in Workers : v # w => pc'[v] = pc[v]
          /\ issued' \in {issued, issued + 1}
      BY <1>0, <1>15, <2>3 DEF Claim, Finish
    <3>2. issued' \in Nat /\ issued <= issued'
      BY <1>0, <3>1
    <3>3. QED
      BY <1>6, <2>1, <2>2, <3>1, <3>2
  <2>4. CASE Claimable(w) /\ o = "ok"
    <3>1. /\ Transaction([mem EXCEPT ![cur[w]] =
                              claimRow(mem[cur[w]], issued + 1)], o)
          /\ pc' = [pc EXCEPT ![w] = "send"]
          /\ key' = [key EXCEPT ![w] = issued + 1]
          /\ issued' = issued + 1 /\ cur' = cur
      BY <1>15, <2>4 DEF Claim, Goto
    <3>2. PICK c \in Items : c = cur[w]
      BY <1>0, <2>1 DEF ItemHeld
    <3>3. mem' = [mem EXCEPT ![c] = claimRow(mem[c], issued + 1)] /\ disk' = mem'
      BY <2>4, <3>1, <3>2 DEF Transaction
    <3>4. mem'[c] = claimRow(mem[c], issued + 1) /\ disk'[c] = mem'[c]
      BY <1>0, <3>3
    <3>5. /\ mem'[c].status = "delivering" /\ mem'[c].key = issued'
          /\ disk'[c].status = "delivering" /\ disk'[c].key = issued'
      BY <3>1, <3>4 DEF claimRow, updateQueueStatus
    <3>6. \A m \in sent : m.key \in Nat /\ m.key # 0 /\ m.key <= issued
      BY <1>0 DEF KeysDrawn, Message
    <3>7. issued' # 0 /\ \A m \in sent : m.key # issued' /\ m.key <= issued'
      BY <1>0, <3>1, <3>6
    <3>8. \A v \in Workers : v # w => pc'[v] \notin {"send", "complete"}
      BY <1>0, <2>1, <3>1 DEF GateHeld
    <3>9. pc'[w] = "send" /\ key'[w] = issued' /\ cur'[w] = c
      BY <1>0, <3>1, <3>2
    <3>10. KeysDrawn' /\ AtMostOnce'
      BY <1>0, <2>2, <3>6, <3>7 DEF KeysDrawn, AtMostOnce
    <3>11. SendReady'
      BY <2>2, <3>5, <3>7, <3>8, <3>9 DEF SendReady
    <3>12. CompleteReady'
      BY <3>8, <3>9 DEF CompleteReady
    <3>13. QED
      BY <3>10, <3>11, <3>12
  <2>5. QED
    BY <2>3, <2>4
<1>16. CASE ServerStep
  <2>1. /\ UNCHANGED <<fileVars, serviceVars, historyVars>>
        /\ accepted \subseteq accepted'
    BY <1>16
    DEF ServerStep, Accept, Refuse, Drop, EndTurn, FailTurn, AskUser, AnswerUser,
        OtherTurn, ServerFrame
  <2>2. QED
    BY <1>0, <2>1
    DEF KeysDrawn, SendReady, CompleteReady, AtMostOnce, Request, fileVars,
        serviceVars, historyVars
<1>17. CASE UNCHANGED vars
  BY <1>0, <1>17
  DEF KeysDrawn, SendReady, CompleteReady, AtMostOnce, Request, vars, fileVars,
      serviceVars, serverVars, historyVars
<1>18. ASSUME NEW w \in Workers, Deliver(w) PROVE Goal
  <2>1. "ok" \in TxOutcome
    BY DEF TxOutcome
  <2>2. QED
    BY <1>12, <1>13, <1>14, <1>15, <1>18, <2>1 DEF Deliver
<1>19. QED
  BY <1>1, <1>2, <1>3, <1>5, <1>8, <1>9, <1>10, <1>11, <1>16, <1>17, <1>18
  DEF Next, DispatcherStep

-----------------------------------------------------------------------------
(***************************************************************************)
(* The theorems                                                            *)
(***************************************************************************)
(* An agent that was never started satisfies the invariant. *)
LEMMA InvInit == Init => DeliveryInv
<1> SUFFICES ASSUME Init PROVE DeliveryInv
  OBVIOUS
<1>1. TypeOK
  BY TypeInit
<1>2. \A i \in Items : mem[i] = NoRow /\ disk[i] = NoRow
  BY DEF Init
<1>3. \A i \in Items : RowInv(i, NoRow)
  <2>1. /\ sent = {} /\ removed = {} /\ issued = 0
        /\ NoRow.status = "absent" /\ NoRow.key = 0
    BY DEF Init, NoRow
  <2>2. QED
    BY <2>1 DEF RowInv
<1>4. DatabaseInv(mem) /\ DatabaseInv(disk)
  BY <1>2, <1>3 DEF DatabaseInv
<1>5. /\ ItemHeld /\ GateHeld /\ DownIsIdle /\ KeysDrawn /\ KeyHeld /\ SendReady
      /\ CompleteReady /\ AtMostOnce
  BY DEF Init, ItemHeld, GateHeld, DownIsIdle, KeysDrawn, KeyHeld, SendReady,
         CompleteReady, AtMostOnce
<1>6. QED
  BY <1>1, <1>4, <1>5 DEF DeliveryInv

(* Every step of the agent, its users, the app-server and the file system
   preserves the invariant. *)
LEMMA InvStep == DeliveryInv /\ [Next]_vars => DeliveryInv'
<1> SUFFICES ASSUME DeliveryInv, [Next]_vars PROVE DeliveryInv'
  OBVIOUS
<1>1. TypeOK'
  BY TypeStep DEF DeliveryInv
<1>2. DatabaseInv(mem)' /\ DatabaseInv(disk)'
  BY DatabaseStep
<1>3. ItemHeld' /\ GateHeld' /\ KeyHeld' /\ DownIsIdle'
  BY WorkersStep
<1>4. KeysDrawn' /\ SendReady' /\ CompleteReady' /\ AtMostOnce'
  BY IdentityStep
<1>5. QED
  BY <1>1, <1>2, <1>3, <1>4 DEF DeliveryInv

(* The inductive invariant holds of every reachable state of the delivery path,
   for any number of items, threads, steer requests, crashes and faults. *)
THEOREM DeliveryInvariant == Spec => []DeliveryInv
<1>1. QED
  BY InvInit, InvStep, PTL DEF Spec

(* Rows, workers, requests and histories keep their types: in particular no
   path leaves a row with a status outside the CHECK constraint of
   queue_items. *)
THEOREM TypeCorrect == Spec => []TypeOK
<1>1. DeliveryInv => TypeOK
  BY DEF DeliveryInv
<1>2. QED
  BY <1>1, DeliveryInvariant, PTL

(* At-most-once dispatch: a second request for an item is only sent after a
   user's explicit retry of the first. *)
THEOREM AtMostOnceDelivery == Spec => []AtMostOnce
<1>1. DeliveryInv => AtMostOnce
  BY DEF DeliveryInv
<1>2. QED
  BY <1>1, DeliveryInvariant, PTL

(* A request that was sent has its claim on disk until a user retries it. *)
THEOREM ClaimOutlives == Spec => []ClaimOutlivesRequest
<1>1. DeliveryInv => ClaimOutlivesRequest
  <2> SUFFICES ASSUME DeliveryInv, NEW m \in sent
               PROVE  m.key \in retired \/ disk[m.item].key = m.key
    BY DEF ClaimOutlivesRequest
  <2>1. m.item \in Items
    BY DEF DeliveryInv, TypeOK, Message
  <2>2. RowInv(m.item, disk[m.item])
    BY <2>1 DEF DeliveryInv, DatabaseInv
  <2>3. QED
    BY <2>2 DEF RowInv
<1>2. QED
  BY <1>1, DeliveryInvariant, PTL

(* A completed item was accepted by the app-server or dismissed by its user. *)
THEOREM CompletionsTruthful == Spec => []CompletedMeansAccepted
<1>1. DeliveryInv => CompletedMeansAccepted
  BY DEF DeliveryInv, DatabaseInv, RowInv, CompletedMeansAccepted
<1>2. QED
  BY <1>1, DeliveryInvariant, PTL

(* Nothing is sent for an item whose removal was reported. *)
THEOREM RemovedItems == Spec => RemovedNeverSent
<1>1. DeliveryInv /\ [Next]_vars =>
          [\A m \in sent' \ sent : m.item \notin removed]_vars
  <2> SUFFICES ASSUME DeliveryInv, [Next]_vars, NEW m \in sent' \ sent
               PROVE  m.item \notin removed
    OBVIOUS
  <2>1. PICK w \in Workers : Send(w)
    BY SMTT(30), ZenonT(40) DEF Next, vars, fileVars, serviceVars, serverVars, historyVars, Start,
           Crash, FileStep, UserStep, UserFrame, Add, Remove, AcknowledgeRetry,
           AcknowledgeDismiss, DispatcherStep, DispatchNext, EnterGate,
           InspectForDispatch, Pause, Finish, Deliver, ReceiveTurnId,
           ReceiveRefusal, LoseResponse, Claim, Complete, MarkIndeterminate,
           SteerStep, Steer, InspectForSteer, ServerStep, ServerFrame, Accept,
           Refuse, Drop, EndTurn, FailTurn, AskUser, AnswerUser, OtherTurn
  <2>2. PICK c \in Items : c = cur[w]
    BY <2>1 DEF Send, DeliveryInv, ItemHeld
  <2>3. m.item = c
    BY <2>1, <2>2 DEF Send, Request
  <2>4. mem[c].status = "delivering" /\ RowInv(c, mem[c])
    BY <2>1, <2>2 DEF Send, DeliveryInv, SendReady, DatabaseInv
  <2>5. QED
    BY <2>3, <2>4 DEF RowInv
<1>2. QED
  BY <1>1, DeliveryInvariant, PTL DEF Spec, RemovedNeverSent
=============================================================================
