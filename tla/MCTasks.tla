------------------------------ MODULE MCTasks -------------------------------
(* What the Agent keeps about tasks, for TLC: leases, turns,
   permissions and side chats. Each module has state of its own, so a behaviour
   is about one of them, drawn at the start. *)
EXTENDS ThreadLeases, TLC

CONSTANTS t1, t2, u1, u2, u3

VARIABLES part,    \* the component this behaviour is about
          x1, x2, x3, x4, x5, x6, x7, x8, x9, x10, x11, x12, x13, x14, x15, x16, x17, x18
                       \* its state, under its own names

others == <<x1, x2, x3, x4, x5, x6, x7, x8, x9, x10, x11, x12, x13, x14, x15, x16, x17, x18>>

(* Two sessions open a task while a third one starts another, with room for one
   lease. *)
OpenedTask == [h \in {u1, u2, u3} |-> IF h = u3 THEN t2 ELSE t1]

(* Two callers and two turns of one task. *)
T == INSTANCE TurnTracking WITH
    Callers <- {u1, u2}, MaxTurns <- 2, MaxCalls <- 3, MaxAsks <- 1, MaxFaults <- 1,
    active <- x1, turns <- x2, wire <- x3, state <- x4, current <- x5, terminal <- x6,
    observers <- x7, startObs <- x8, timers <- x9, entries <- x10, asked <- x11,
    call <- x12, draining <- x13, stale <- x14, calls <- x15, lost <- x16

(* Two pages and the terminal, two permission profiles. *)
P == INSTANCE Permissions WITH
    Page <- {u1, u2}, Perm <- {t1, t2}, MaxOps <- 5, MaxFaults <- 1, thread <- x1,
    perm <- x2, orphan <- x3, row <- x4, obs <- x5, gen <- x6, lock <- x7,
    resumed <- x8, cached <- x9, view <- x10, op <- x11, tui <- x12, told <- x13,
    ops <- x14, faults <- x15

(* Two creations of a side chat, one crash, one failing transaction. *)
S == INSTANCE SideChats WITH
    MaxFaults <- 1, MaxKeys <- 2, MaxCrashes <- 1, mem <- x1, disk <- x2, faults <- x3,
    up <- x4, issued <- x5, kind <- x6, pc <- x7, key <- x8, known <- x9, reply <- x10,
    orphans <- x11, forks <- x12, running <- x13, parent <- x14, abandoned <- x15,
    unseen <- x16, crashes <- x17, unsettled <- x18

TasksInit ==
    /\ Init
    /\ \/ /\ part = "leases"
          /\ x1 = 0 /\ x2 = 0 /\ x3 = 0 /\ x4 = 0 /\ x5 = 0 /\ x6 = 0 /\ x7 = 0
          /\ x8 = 0 /\ x9 = 0 /\ x10 = 0 /\ x11 = 0 /\ x12 = 0 /\ x13 = 0 /\ x14 = 0
          /\ x15 = 0 /\ x16 = 0 /\ x17 = 0 /\ x18 = 0
       \/ /\ part = "turns" /\ T!Init
          /\ x17 = 0 /\ x18 = 0
       \/ /\ part = "permissions" /\ P!Init
          /\ x16 = 0 /\ x17 = 0 /\ x18 = 0
       \/ /\ part = "side" /\ S!Init

TasksNext ==
    /\ UNCHANGED part
    /\ \/ /\ part = "leases" /\ Next
          /\ UNCHANGED <<x1, x2, x3, x4, x5, x6, x7, x8, x9, x10, x11, x12, x13, x14,
                       x15, x16, x17, x18>>
       \/ /\ part = "turns" /\ T!Next
          /\ UNCHANGED <<vars, x17, x18>>
       \/ /\ part = "permissions" /\ P!Next
          /\ UNCHANGED <<vars, x16, x17, x18>>
       \/ /\ part = "side" /\ S!Next
          /\ UNCHANGED vars

TasksSpec == TasksInit /\ [][TasksNext]_<<part, others, vars>>

(* The two users of a task are interchangeable. *)
Symmetry == Permutations({u1, u2})

-----------------------------------------------------------------------------
ASSUME P!PermissionsAssumption /\ S!SideAssumption

(* observe, startTurn, adoptAuthoritativeThread: everyone who waits for the end of a
   turn hears of it, and what the lease knows of its task agrees with Codex, in whatever
   order answers and notifications come in. *)
TurnsFollowed == part = "turns" => T!EndIsHeard /\ T!AgreesWithCodex /\ T!NothingRetained

(* ThreadSessionCoordinator and the terminal's proxy: the permissions that are stored are
   those in effect unless a user was told otherwise, a page is told what is in effect,
   and while nothing fails the terminal's observer does not bring back the settings of a
   deleted task. *)
PermissionsAgree ==
    /\ [](part = "permissions" => P!NoSilentDivergence /\ P!DeletedStaysDeleted)
    /\ [][part = "permissions" => P!ViewTruthful]_others

(* SideChatService: a fork that Codex made has an owner, a side chat that is offered
   exists, its workspace and its parent stay, and it is not deleted while it answers,
   through crashes, lost answers and failing transactions. *)
ForkIsOwned ==
    /\ [](part = "side" => /\ S!ForkIsOwned /\ S!ReadyIsAlive
                           /\ S!WorkspaceStays /\ S!ParentStays)
    /\ [][part = "side" => S!StoppedBeforeDelete]_others
=============================================================================
