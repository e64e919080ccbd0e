----------------------------- MODULE MCStorage ------------------------------
(* What is kept on the disk, for TLC: the two kinds of locks, the database files, the
   older stores and the configuration of the host. They are independent, so a behaviour
   is about one of them, drawn at the start. *)
EXTENDS HostConfig, StateLock, TLC

CONSTANTS a0, a1, a2, a3, p0, p1, p2, p3, near, far, w1, w2, w3, c1, c2, Nil

VARIABLES part,    \* the component this behaviour is about
          x1, x2, x3, x4, x5, x6, x7, x8, x9    \* its state, under its own names

state == <<x1, x2, x3, x4, x5, x6, x7, x8, x9>>

(* The lock of a process that is gone, found by two processes of its host and one of
   another; each attempt is made by a process of its own. *)
OwnProcess == (a0 :> p0) @@ (a1 :> p1) @@ (a2 :> p2) @@ (a3 :> p3)
TwoHosts == [p \in {p0, p1, p2, p3} |-> IF p = p3 THEN far ELSE near]

(* Three processes find the lock of one that is gone; one of them dies. *)
P == INSTANCE ProcessLock WITH
    Procs <- {w1, w2, w3}, Before <- p0, HostOf <- [p \in {w1, w2, w3, p0} |-> "h1"],
    MaxCrashes <- 1, None <- Nil, pub <- x1, own <- x2, proof <- x3, quar <- x4,
    alive <- x5, pc <- x6, todo <- x7, round <- x8, crashes <- x9

(* The Agent, a command and a process of an older release. *)
D == INSTANCE StateDatabase WITH
    Procs <- {p1, p2, p3}, Release <- [p \in {p1, p2, p3} |-> IF p = p3 THEN 1 ELSE 2],
    Workspaces <- {near}, Threads <- {far}, MaxChanges <- 2, MaxFaults <- 1,
    None <- Nil, kind <- x1, disk <- x2, mem <- x3, handle <- x4, create <- x5,
    changes <- x6, faults <- x7, reported <- x8, raced <- x9

(* Two callers of one Agent, two messages of a task, one failing transaction. *)
H == INSTANCE HostStore WITH
    Callers <- {c1, c2}, Threads <- {near}, MaxItems <- 2, MaxStops <- 3,
    MaxFaults <- 1, file <- x1, up <- x2, call <- x3, added <- x4, sent <- x5,
    recorded <- x6, stops <- x7, faults <- x8

(* The attempts are all over in a behaviour that is not about them. *)
NoAttempts ==
    /\ dead = Processes /\ lock = 0 /\ fence = 0 /\ quar = 0 /\ fquar = 0 /\ listed = 0
    /\ expired = 0 /\ crowded = FALSE
    /\ pc = 0 /\ site = 0 /\ proof = 0 /\ moved = 0 /\ mine = 0 /\ fresh = 0 /\ expiries = 0

NoState ==
    /\ x1 = 0 /\ x2 = 0 /\ x3 = 0 /\ x4 = 0 /\ x5 = 0 /\ x6 = 0 /\ x7 = 0 /\ x8 = 0 /\ x9 = 0

StorageInit ==
    /\ ConfigInit
    /\ \/ part = "lock" /\ Init /\ NoState
       \/ part = "config" /\ NoAttempts /\ NoState
       \/ part = "process" /\ NoAttempts /\ P!Init
       \/ part = "database" /\ NoAttempts /\ D!Init
       \/ part = "host" /\ NoAttempts /\ H!Init /\ x9 = 0

StorageNext ==
    /\ UNCHANGED part
    /\ \/ part = "lock" /\ Next /\ UNCHANGED <<state, configVars>>
       \/ part = "process" /\ P!Next /\ UNCHANGED <<vars, configVars>>
       \/ part = "database" /\ D!Next /\ UNCHANGED <<vars, configVars>>
       \/ part = "host" /\ H!Next /\ UNCHANGED <<vars, configVars, x9>>
       \/ part = "config" /\ ConfigNext /\ UNCHANGED <<state, vars>>

StorageSpec == StorageInit /\ [][StorageNext]_<<part, state, vars, configVars>>

(* Writers are interchangeable; so are the two callers, and the two processes of one host
   with their attempts.  No behaviour has both of these pairs, and one swap serves them. *)
Swap == (a1 :> a2) @@ (a2 :> a1) @@ (p1 :> p2) @@ (p2 :> p1) @@ (c1 :> c2) @@ (c2 :> c1)
Symmetry == Permutations({w1, w2, w3}) \cup {Swap}

-----------------------------------------------------------------------------
ASSUME P!ProcessLockAssumption

(* acquireProcessFileLock: up to three processes that reclaim a stale lock at once, one
   of them dying, never hold it together; the public name is the holder's. *)
Exclusion == part = "process" => P!Exclusion /\ P!HolderIsLinked

(* SqliteStateFile: what was reported as committed stays, the file is valid, a snapshot
   comes out as it went in, and no older release takes the schema back.
   QueueRegistry and HostStateStore: a message is sent at most once and one at a time,
   old state is quarantined, and a newer database is never overwritten. *)
StoresKept ==
    /\ [](part = "database" => D!CommittedStays /\ D!FileIsValid /\ D!RoundTrip)
    /\ [][part = "database" => D!SchemaNeverFalls]_state
    /\ [](part = "host" => H!SentOnce /\ H!OneInFlight /\ H!OldStateQuarantined)
    /\ [][part = "host" => H!NewerIsKept]_state
=============================================================================
