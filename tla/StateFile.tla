----------------------------- MODULE StateFile -----------------------------
(***************************************************************************)
(* The agent's SQLite state file as one process sees it: `disk` is the     *)
(* database that the last rename(2) published, `mem` the sql.js database   *)
(* held in memory.  SqliteStateFile.transaction commits in memory first    *)
(* and then persists, so a transaction that throws may have                *)
(*                                                                         *)
(*   "aborted"    left no trace (the operation or BEGIN/COMMIT threw);     *)
(*   "memory"     committed in memory only: #persist failed before the     *)
(*                rename, nothing rolls the COMMIT back, and #reload keeps *)
(*                the in-memory database while the file is unchanged;      *)
(*   "unreported" reached the disk: #persist failed after the rename.      *)
(*                                                                         *)
(* Only the outcome "ok" is reported as success.  What the database holds  *)
(* is up to the module that extends this one.                              *)
(***************************************************************************)
EXTENDS Naturals

CONSTANT MaxFaults      \* bound on the transactions that fail

ASSUME MaxFaultsAssumption == MaxFaults \in Nat

VARIABLES mem, disk, faults

TxOutcome == {"ok", "aborted", "memory", "unreported"}

(***************************************************************************)
(* A transaction that computes database `new`, with outcome o.             *)
(***************************************************************************)
Transaction(new, o) ==
    /\ o # "ok" => faults < MaxFaults
    /\ faults' = IF o = "ok" THEN faults ELSE faults + 1
    /\ mem'  = IF o = "aborted" THEN mem ELSE new
    /\ disk' = IF o \in {"ok", "unreported"} THEN new ELSE disk

(***************************************************************************)
(* A transaction of the start-up sequence: if it throws the process exits, *)
(* so nothing that only memory holds survives it.                          *)
(***************************************************************************)
StartupTransaction(new, o) ==
    /\ o # "ok" => faults < MaxFaults
    /\ faults' = IF o = "ok" THEN faults ELSE faults + 1
    /\ disk' = IF o \in {"ok", "unreported"} THEN new ELSE disk
    /\ mem'  = disk'

(***************************************************************************)
(* A transaction whose operation throws (or that changes nothing): the     *)
(* in-memory change is rolled back and nothing is persisted.               *)
(***************************************************************************)
NoTransaction == UNCHANGED <<mem, disk, faults>>

(***************************************************************************)
(* Another repository of the same process commits: #persist exports the    *)
(* whole in-memory database, the changes of failed transactions included.  *)
(***************************************************************************)
OtherCommit == /\ mem # disk
               /\ disk' = mem
               /\ UNCHANGED <<mem, faults>>

(***************************************************************************)
(* Another process (the ce command line) commits: the revision of the file *)
(* changes and the next #reload replaces the in-memory database.           *)
(***************************************************************************)
ForeignCommit == /\ mem # disk
                 /\ mem' = disk
                 /\ UNCHANGED <<disk, faults>>

(***************************************************************************)
(* The process dies: the in-memory database is gone, open() reads the file.*)
(***************************************************************************)
LoseMemory == /\ mem' = disk
              /\ UNCHANGED <<disk, faults>>
=============================================================================
