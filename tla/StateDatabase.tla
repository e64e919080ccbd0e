----------------------------- MODULE StateDatabase -----------------------------
(***************************************************************************)
(* The state database as several processes open, create, migrate, change   *)
(* and replace it: SqliteStateFile below UserStateDatabase and             *)
(* AdminStateDatabase.  Every access to the file happens under the state   *)
(* lock (module StateLock), so one locked access is one step here; what    *)
(* interleaves are the accesses.  open() is four of them: the file, the    *)
(* look for the metadata row, its insertion, and the verification.         *)
(*                                                                         *)
(* A process of an older release knows schema 1 only.  The rows of the     *)
(* tables are sets; the rows no invariant speaks of (`identity`,           *)
(* `receipts`, and `marks` for settings, queue, audit and managed users)   *)
(* are numbers, one per change.                                            *)
(***************************************************************************)
EXTENDS Naturals

CONSTANTS Procs,       \* the agent and the commands of its user
          Release,     \* the schema version each of them knows
          Workspaces, Threads,
          MaxChanges,  \* bound on the changes
          MaxFaults,   \* bound on failing transactions and killed processes
          None

VARIABLES kind,      \* "user" or "admin": which database the file holds
          disk,      \* the published file, or None
          mem,       \* the sql.js database of each handle whose revision is the
                     \* file's; None when the next access has to load the file
          handle,    \* where each process is in open()
          create,    \* the create option it was called with
          changes, faults,
          reported,  \* the marks of the changes reported as committed
          raced      \* a file that had its metadata was filled as a new one

vars == <<kind, disk, mem, handle, create, changes, faults, reported, raced>>

(***************************************************************************)
(* The database.                                                           *)
(***************************************************************************)

\* The schema version a process creates and accepts; the administrator's schema
\* has not changed since its first version.
SchemaVersion(p) == IF kind = "admin" THEN 1 ELSE Release[p]

\* What the schema creates: its tables, without a metadata row.
Schema(v) ==
    [version |-> v, meta |-> FALSE, default |-> None, generation |-> 0,
     workspaces |-> {}, observed |-> {}, sideChats |-> {}, marks |-> {},
     identity |-> {}, receipts |-> {}]

\* Both kinds of database hold the identity and the receipts.
readIdentity(db) == db.identity
readMutationReceipts(db) == db.receipts
insertIdentity(db, r) == [db EXCEPT !.identity = @ \cup r.identity]
insertMutationReceipts(db, r) == [db EXCEPT !.receipts = @ \cup r.receipts]
clearIdentity(db) == [db EXCEPT !.identity = {}]

\* The rows of the user database that the metadata row does not hold.
readUserTables(db) ==
    [workspaces |-> db.workspaces, observed |-> db.observed, marks |-> db.marks]

\* Everything a snapshot of the user database carries.
readUserRecords(db) ==
    LET tables == readUserTables(db) IN
    [default |-> db.default, generation |-> db.generation,
     workspaces |-> tables.workspaces, observed |-> tables.observed,
     sideChats |-> db.sideChats, marks |-> tables.marks,
     identity |-> readIdentity(db), receipts |-> readMutationReceipts(db)]

\* A snapshot of the administrator's: managed users and audit are its marks.
readAdminRecords(db) ==
    [default |-> None, generation |-> 0, workspaces |-> {}, observed |-> {},
     sideChats |-> {}, marks |-> db.marks,
     identity |-> readIdentity(db), receipts |-> readMutationReceipts(db)]

emptyUserSnapshot ==
    [default |-> None, generation |-> 0, workspaces |-> {}, observed |-> {},
     sideChats |-> {}, marks |-> {}, identity |-> {}, receipts |-> {}]

\* DELETE FROM every table.
ClearKeepingSideChats(db) ==
    [clearIdentity(Schema(db.version)) EXCEPT !.sideChats = db.sideChats]
clearUserState(db) ==
    clearIdentity([db EXCEPT !.sideChats = {}, !.receipts = {}, !.marks = {},
                             !.observed = {}, !.workspaces = {}, !.meta = FALSE])
clearAdminState(db) ==
    clearIdentity([db EXCEPT !.marks = {}, !.receipts = {}, !.meta = FALSE])

insertUserRecords(db, r) ==
    insertMutationReceipts(insertIdentity(
        [db EXCEPT !.meta = TRUE, !.default = r.default,
                   !.generation = r.generation,
                   !.workspaces = @ \cup r.workspaces,
                   !.observed = @ \cup r.observed,
                   !.sideChats = @ \cup r.sideChats,
                   !.marks = @ \cup r.marks], r), r)

insertAdminRecords(db, r) ==
    insertMutationReceipts(insertIdentity(
        [db EXCEPT !.meta = TRUE, !.marks = @ \cup r.marks], r), r)

\* The invariants that SQL constraints do not state.
validateUserInvariants(db) ==
    /\ db.meta
    /\ db.default \in db.workspaces \cup {None}
    /\ \A o \in db.observed : o[2] <= db.generation

\* The administrator's user names are unique by a constraint as well.
validateAdminInvariants(db) == db.meta

readRecords(db) == IF kind = "user" THEN readUserRecords(db) ELSE readAdminRecords(db)
Valid(db) == IF kind = "user" THEN validateUserInvariants(db)
                              ELSE validateAdminInvariants(db)

\* #validate: the handle's own schema, with all its tables.
Supported(p, db) == db.version = SchemaVersion(p)

\* The migration from schema 1 adds the table of the side chats.
MigratesAnyVersion(p, db) == SchemaVersion(p) # db.version
Migrates(p, db) == SchemaVersion(p) = 2 /\ db.version = 1
Migrated(p, db) == [db EXCEPT !.version = SchemaVersion(p)]

\* Snapshots a caller may hand in: those of this program's own exports, and one
\* that breaks an invariant.
Snapshots ==
    {emptyUserSnapshot, [emptyUserSnapshot EXCEPT !.identity = {0}, !.receipts = {0}]}
    \cup IF kind = "admin" THEN {} ELSE
    {[emptyUserSnapshot EXCEPT !.workspaces = {w}, !.default = w, !.marks = {0}] :
        w \in Workspaces} \cup
    {[emptyUserSnapshot EXCEPT !.default = w] : w \in Workspaces}

(***************************************************************************)
(* One locked access of a handle.                                          *)
(***************************************************************************)

\* #reload keeps the database in memory while device, inode, size and times of
\* the file are those this handle loaded or wrote.
sameRevision(p) == mem[p] # None

Reloaded(p) == IF sameRevision(p) THEN mem[p] ELSE disk

\* It refuses a file of another schema.
Loads(p) == disk # None /\ (sameRevision(p) \/ Supported(p, disk))

Remember(p) == mem' = [mem EXCEPT ![p] = Reloaded(p)]

\* A write gives the file a revision no other handle has seen.
WrittenSameSize(p, db) == [mem EXCEPT ![p] = db]
Written(p, db) == [q \in Procs |-> IF q = p THEN db ELSE None]

\* #persist publishes the whole database of the handle.  It may fail before the
\* rename, which leaves the COMMIT in memory, or after it.
Publish(p, db, o) ==
    /\ \/ o = "ok" /\ disk' = db /\ mem' = Written(p, db)
       \/ o = "memory" /\ UNCHANGED disk /\ mem' = [mem EXCEPT ![p] = db]
       \/ o = "unreported" /\ disk' = db /\ mem' = Written(p, None)
    /\ faults' = IF o = "ok" THEN faults ELSE faults + 1

Outcomes == IF faults < MaxFaults THEN {"ok", "memory", "unreported"} ELSE {"ok"}

At(p, where) == handle' = [handle EXCEPT ![p] = where]

(***************************************************************************)
(* open()                                                                  *)
(***************************************************************************)

\* SqliteStateFile.open: a new file gets the schema, an old one is migrated; a
\* failure ends the call, whether the file was published or not.
OpenFile(p, c) ==
    /\ handle[p] = "none"
    /\ \/ \E o \in Outcomes :
             /\ \/ disk = None /\ c /\ Publish(p, Schema(SchemaVersion(p)), o)
                \/ disk # None /\ Migrates(p, disk) /\ Publish(p, Migrated(p, disk), o)
             /\ IF o = "ok" THEN At(p, "file") ELSE UNCHANGED handle
             /\ create' = [create EXCEPT ![p] = c /\ o = "ok"]
       \/ /\ disk # None /\ Supported(p, disk)
          /\ mem' = [mem EXCEPT ![p] = disk]
          /\ create' = [create EXCEPT ![p] = c]
          /\ At(p, "file")
          /\ UNCHANGED <<disk, faults>>
    /\ UNCHANGED <<changes, reported, raced>>

\* open() reads whether there is a metadata row.
HasMetadata(p) ==
    /\ handle[p] = "file"
    /\ \/ Loads(p) /\ Remember(p)
          /\ At(p, CASE Reloaded(p).meta -> "verify"
                     [] ~Reloaded(p).meta /\ create[p] -> "fill"
                     [] OTHER -> "none")
       \/ ~Loads(p) /\ At(p, "none") /\ UNCHANGED mem
    /\ create' = [create EXCEPT ![p] = FALSE]
    /\ UNCHANGED <<disk, changes, faults, reported, raced>>

\* replaceSnapshot: everything goes, the records come in, and what breaks an
\* invariant is rolled back.
Replaced(db, r) ==
    IF kind = "user" THEN insertUserRecords(clearUserState(db), r)
                     ELSE insertAdminRecords(clearAdminState(db), r)

Unvalidated(p, r, o) ==
    /\ Loads(p)
    /\ Publish(p, Replaced(Reloaded(p), r), o)

ReplaceSnapshot(p, r, o) ==
    /\ Loads(p) /\ Valid(Replaced(Reloaded(p), r))
    /\ Publish(p, Replaced(Reloaded(p), r), o)

\* The second transaction of open(): the empty snapshot.
Fill(p) ==
    /\ handle[p] = "fill"
    /\ \E o \in Outcomes :
          /\ ReplaceSnapshot(p, emptyUserSnapshot, o)
          /\ At(p, IF o = "ok" THEN "verify" ELSE "none")
    /\ raced' = (raced \/ disk.meta)
    /\ UNCHANGED <<create, changes, reported>>

\* verify: integrity, foreign keys, schema, invariants.
Verify(p) ==
    /\ handle[p] = "verify"
    /\ \/ Loads(p) /\ Remember(p)
          /\ At(p, IF Valid(Reloaded(p)) THEN "open" ELSE "none")
       \/ ~Loads(p) /\ At(p, "none") /\ UNCHANGED mem
    /\ UNCHANGED <<disk, create, changes, faults, reported, raced>>

(***************************************************************************)
(* An open handle.                                                         *)
(***************************************************************************)

\* What the repositories' transactions do to the rows the invariants speak of.
ChangedUser(db) ==
    {[db EXCEPT !.workspaces = @ \cup {w},
                !.default = IF @ = None THEN w ELSE @] : w \in Workspaces} \cup
    {[db EXCEPT !.workspaces = @ \ {w},
                !.default = IF @ = w THEN None ELSE @] :
        w \in db.workspaces \ db.sideChats} \cup
    {[db EXCEPT !.generation = @ + 1,
                !.observed = {o \in @ : o[1] # t} \cup {<<t, db.generation + 1>>}] :
        t \in Threads} \cup
    {[db EXCEPT !.sideChats = @ \cup {w}] : w \in db.workspaces}

\* A change leaves its mark in one of the tables.
Changed(db, n) ==
    {[db EXCEPT !.identity = @ \cup {n}], [db EXCEPT !.receipts = @ \cup {n}]} \cup
    {[new EXCEPT !.marks = @ \cup {n}] :
        new \in IF kind = "user" THEN ChangedUser(db) ELSE {db}}

AllMarks(db) == db.marks \cup db.identity \cup db.receipts

\* SqliteStateFile.transaction by a repository.
Transaction(p) ==
    /\ handle[p] = "open" /\ changes < MaxChanges /\ Loads(p)
    /\ changes' = changes + 1
    /\ \E new \in Changed(Reloaded(p), changes + 1), o \in Outcomes :
          /\ Publish(p, new, o)
          /\ reported' = IF o = "ok" THEN reported \cup {changes + 1} ELSE reported
    /\ UNCHANGED <<handle, create, raced>>

\* exportSnapshot and every other read.
Read(p) ==
    /\ handle[p] = "open" /\ Loads(p) /\ ~sameRevision(p)
    /\ Remember(p)
    /\ UNCHANGED <<disk, handle, create, changes, faults, reported, raced>>

\* createFromSnapshot and replaceSnapshot on an open handle: the caller asks for
\* the rows to go, and a call that failed may still take effect with the next
\* change that is published.
Replace(p) ==
    /\ handle[p] = "open" /\ changes < MaxChanges
    /\ changes' = changes + 1
    /\ \E r \in Snapshots, o \in Outcomes :
          ReplaceSnapshot(p, r, o)
    /\ reported' = {}
    /\ UNCHANGED <<handle, create, raced>>

\* close() or the end of the process: the database in memory is gone.
Ends(p) ==
    /\ handle[p] # "none"
    /\ handle[p] # "open" => faults < MaxFaults
    /\ faults' = IF handle[p] = "open" THEN faults ELSE faults + 1
    /\ At(p, "none")
    /\ mem' = [mem EXCEPT ![p] = None]
    /\ create' = [create EXCEPT ![p] = FALSE]
    /\ UNCHANGED <<disk, changes, reported, raced>>

Access(p) == HasMetadata(p) \/ Fill(p) \/ Verify(p)

Next == /\ UNCHANGED kind
        /\ \E p \in Procs :
            \/ \E c \in BOOLEAN : OpenFile(p, c)
            \/ Access(p) \/ Transaction(p) \/ Read(p) \/ Replace(p)
            \/ Ends(p)

\* A host without a state file, or with one of the release before.
Init ==
    /\ kind \in {"user", "admin"}
    /\ disk \in {None, [Schema(1) EXCEPT !.meta = TRUE, !.marks = {0}]}
    /\ mem = [p \in Procs |-> None]
    /\ handle = [p \in Procs |-> "none"]
    /\ create = [p \in Procs |-> FALSE]
    /\ changes = 0 /\ faults = 0
    /\ reported = (IF disk = None THEN {} ELSE {0})
    /\ raced = FALSE

Spec == Init /\ [][Next]_vars

(***************************************************************************)
(* Properties                                                              *)
(***************************************************************************)

\* transaction (sqlite-state-file.ts:152): a change that was reported as done is
\* in the file from then on, whatever other processes read, change, migrate or
\* fail to write; only replacing the whole database removes it.
CommittedStays == raced \/ (disk # None => reported \subseteq AllMarks(disk))

\* open with create (user-state-database.ts:68), which `ce agent ensure` calls
\* to be idempotent, keeps what other processes committed.
EnsureKeepsState == disk # None => reported \subseteq AllMarks(disk)

\* #validate (sqlite-state-file.ts:264): once the file has the new schema, no
\* process of an older release writes it back; a file is never withdrawn.
SchemaNeverFalls == disk # None => disk' # None /\ disk'.version >= disk.version

\* validateUserInvariants (user-state-database.ts:458): a file with metadata
\* satisfies the invariants, also when a rejected snapshot, a change that stayed
\* in memory or a process of another release came before.
FileIsValid == disk # None /\ disk.meta => Valid(disk)

\* exportSnapshot after replaceSnapshot (state-database.test.ts:98): what was put
\* in comes out, whatever the database held before.
RoundTrip ==
    \A p \in Procs, r \in Snapshots :
        handle[p] = "open" /\ Loads(p) => readRecords(Replaced(Reloaded(p), r)) = r

================================================================================
