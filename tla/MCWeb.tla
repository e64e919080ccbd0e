------------------------------- MODULE MCWeb --------------------------------
(* What the web page shows, and the tunnels that bring it there, for TLC: its tasks, queue
   and side chats, the setup page, browsers at the Relay, and the Host that the page's
   demonstrations run against. They are independent, so a behaviour is about one of them,
   drawn at the start. *)
EXTENDS Naturals, TLC

CONSTANTS t1, t2, u1, u2, c1, c2, Nil

VARIABLES part,    \* the component this behaviour is about
          x1, x2, x3, x4, x5, x6, x7, x8, x9, x10, x11, x12, x13, x14, x15, x16, x17,
          x18, x19, x20, x21, x22, x23, x24, x25, x26, x27, x28, x29, x30, x31, x32    \* its state, under its own names

state == <<x1, x2, x3, x4, x5, x6, x7, x8, x9, x10, x11, x12, x13, x14, x15, x16, x17,
           x18, x19, x20, x21, x22, x23, x24, x25, x26, x27, x28, x29, x30, x31, x32>>

(* Two tasks, one part of the page at a time, four operations. *)
P == INSTANCE Page WITH
    Thread <- {t1, t2}, Focus <- {"thread", "tasks", "queue", "side"}, PageSize <- 2,
    MaxOps <- 4, MaxFaults <- 0, None <- Nil, focus <- x1, link <- x2, up <- x3,
    work <- x4, down <- x5, views <- x6, lo <- x7, hi <- x8, st <- x9, inter <- x10,
    settings <- x11, name <- x12, item <- x13, chat <- x14, thread <- x15, timer <- x16,
    wanting <- x17, list <- x18, queue <- x19, side <- x20, wanted <- x21,
    strayed <- x22, unseen <- x23, sent <- x24, ops <- x25, faults <- x26

(* The same with a fault and three operations. *)
F == INSTANCE Page WITH
    Thread <- {t1, t2}, Focus <- {"thread", "tasks", "queue", "side"}, PageSize <- 2,
    MaxOps <- 3, MaxFaults <- 1, None <- Nil, focus <- x1, link <- x2, up <- x3,
    work <- x4, down <- x5, views <- x6, lo <- x7, hi <- x8, st <- x9, inter <- x10,
    settings <- x11, name <- x12, item <- x13, chat <- x14, thread <- x15, timer <- x16,
    wanting <- x17, list <- x18, queue <- x19, side <- x20, wanted <- x21,
    strayed <- x22, unseen <- x23, sent <- x24, ops <- x25, faults <- x26

(* Two clicks of this page and one of another. *)
O == INSTANCE Onboarding WITH
    MaxClicks <- 2, MaxOthers <- 1, host <- x1, install <- x2, logins <- x3,
    expiring <- x13, op <- x4,
    wire <- x5, link <- x6, page <- x7, load <- x8, login <- x9, behind <- x10,
    missed <- x11, count <- x12

(* Two browsers compete for the one tunnel a route may have; a data frame and a fault. *)
R == INSTANCE Relay WITH
    Ctl <- {c1, c2}, Conn <- {u1, u2}, MaxTime <- 1, Life <- 1, Window <- 0,
    MaxPerRoute <- 1, MaxIncoming <- 1, MaxConnects <- 2, MaxFrames <- 1,
    MaxBuffered <- 1, MaxBudget <- 1, MaxFaults <- 1, now <- x1, faults <- x2,
    auth <- x3, route <- x4, rel <- x5, ctlR <- x6, tunR <- x7, bucket <- x8,
    reserved <- x9, resv <- x10, sends <- x11, frames <- x12, broken <- x13,
    toRelay <- x14, toAgent <- x15, tw <- x16, up <- x17, cap <- x18, control <- x19,
    ctlA <- x20, tunA <- x21, chain <- x22, tp <- x23, ts <- x24, timer <- x25,
    active <- x26, loop <- x27, snap <- x28, grant <- x29, config <- x30, cred <- x31,
    bs <- x32

(* The Host in memory: an area of its methods at a time, with the options that play there. *)
Area(methods, options, requests) ==
    [methods |-> methods, options |-> options, requests |-> requests]
Areas ==
    {Area({"turn/start", "turn/interrupt", "interaction/respond"}, {"longConversation"}, 4),
     Area({"thread/start", "turn/start", "interaction/respond", "thread/delete"}, {}, 3),
     Area({"thread/start", "turn/start", "mutation/status", "close"}, {}, 3),
     Area({"side/start", "side/abandon", "side/delete", "thread/delete", "thread/open",
           "thread/archive"}, {"childlessSideOnce", "failParentOpenWithSide"}, 3),
     Area({"side/start", "side/delete", "thread/delete", "turn/start"}, {}, 3),
     Area({"queue/add", "queue/remove", "queue/steer", "queue/indeterminate/acknowledge",
           "thread/delete"}, {}, 3),
     Area({"workspace/add", "workspace/remove", "workspace/default/update", "workspace/list",
           "thread/start", "thread/delete"}, {"failWorkspaceListAfterMutationOnce"}, 3),
     Area({"workspace/list", "preferences/read", "preferences/update"},
          {"changePreferencesAfterInitialRead", "delaySecondPreferencesReadOnce",
           "failFirstPreferencesReadOnce", "preferencesAlreadyAppliedConflictOnce",
           "preferencesConflictRefreshFailureOnce"}, 4),
     Area({"thread/settings/update", "thread/rename", "thread/list", "thread/delete"},
          {"threadSettingsConflictOnce", "failThreadListAfterRenameOnce"}, 3),
     Area({"setup/network/configure", "setup/codex/version", "setup/codex/login/start",
           "setup/codex/logout", "setup/app-server/restart"},
          {"failSecondCodexVersionReadOnce", "runtimeSwitchRequired"}, 3),
     Area({"admin/user/register", "admin/user/disable", "admin/user/recovery/start"}, {}, 4)}

G == INSTANCE Scenario WITH
    Names <- {"ada", "bob"}, Scenes <- Areas, scene <- x1, once <- x2, mutations <- x3,
    told <- x4, workspaces <- x5, threads <- x6, settings <- x7, usage <- x8,
    sides <- x9, interactions <- x10, turnOf <- x11, queue <- x12, preferences <- x13,
    users <- x14, audit <- x15, setup <- x16, due <- x17, short <- x18, reads <- x19,
    drawn <- x20, requests <- x21, closed <- x22

WebInit ==
    \/ /\ part = "page" /\ P!Init
       /\ x27 = 0 /\ x28 = 0 /\ x29 = 0 /\ x30 = 0 /\ x31 = 0 /\ x32 = 0
    \/ /\ part = "faulty" /\ F!Init
       /\ x27 = 0 /\ x28 = 0 /\ x29 = 0 /\ x30 = 0 /\ x31 = 0 /\ x32 = 0
    \/ /\ part = "setup" /\ O!Init
       /\ x14 = 0 /\ x15 = 0 /\ x16 = 0 /\ x17 = 0 /\ x18 = 0 /\ x19 = 0
       /\ x20 = 0 /\ x21 = 0 /\ x22 = 0 /\ x23 = 0 /\ x24 = 0 /\ x25 = 0 /\ x26 = 0
       /\ x27 = 0 /\ x28 = 0 /\ x29 = 0 /\ x30 = 0 /\ x31 = 0 /\ x32 = 0
    \/ /\ part = "tunnels" /\ R!Init
    \/ /\ part = "scenario" /\ G!Init
       /\ x23 = 0 /\ x24 = 0 /\ x25 = 0 /\ x26 = 0 /\ x27 = 0 /\ x28 = 0 /\ x29 = 0
       /\ x30 = 0 /\ x31 = 0 /\ x32 = 0

WebNext ==
    /\ UNCHANGED part
    /\ \/ /\ part = "page" /\ P!Next
          /\ UNCHANGED <<x27, x28, x29, x30, x31, x32>>
       \/ /\ part = "faulty" /\ F!Next
          /\ UNCHANGED <<x27, x28, x29, x30, x31, x32>>
       \/ /\ part = "setup" /\ O!Next
          /\ UNCHANGED <<x14, x15, x16, x17, x18, x19, x20, x21, x22, x23, x24,
                       x25, x26, x27, x28, x29, x30, x31, x32>>
       \/ /\ part = "tunnels" /\ R!Next
       \/ /\ part = "scenario" /\ G!Next
          /\ UNCHANGED <<x23, x24, x25, x26, x27, x28, x29, x30, x31, x32>>

WebSpec == WebInit /\ [][WebNext]_<<part, state>>

(* Browsers and control sockets are interchangeable. *)
Symmetry == Permutations({u1, u2}) \cup Permutations({c1, c2})

-----------------------------------------------------------------------------
ASSUME R!RelayAssumption

(* thread-actor, task-list-actor, the mutators and side-chat-runtime: once nothing is on
   its way, the page shows the task that was wanted as the Agent has it, a busy control
   is backed by work, and a question is asked once, whatever was lost or came late. *)
PageTruthful ==
    /\ part = "page" => /\ P!ThreadFresh /\ P!TasksFresh /\ P!MutatorsFresh
                        /\ P!ShownIsWanted /\ P!BusyIsBacked /\ P!QuestionOnce
    /\ part = "faulty" => /\ F!ThreadFresh /\ F!TasksFresh /\ F!MutatorsFresh
                          /\ F!ShownIsWanted /\ F!BusyIsBacked /\ F!QuestionOnce

(* onboarding-actor and SetupPage: the step that is shown catches up with the host, and a
   control is busy only while its operation is. *)
SetupTruthful == part = "setup" => O!StepCatchesUp /\ O!ControlsTruthful

(* RelayServer: what the relay holds for a route is authorized and within its limits, and
   every byte reserved is given back once. *)
TunnelsAuthorized == part = "tunnels" => R!LiveIsAuthorized /\ R!LoadKept /\ R!BudgetBalanced

(* ScenarioGateway: a turn ends once and a task that waits has its question, whatever is
   interrupted or deleted while timers run; a deleted task leaves nothing, a side chat has
   one parent, a removal its date and its audit, and a key one outcome. *)
ScenarioKept == part = "scenario" => G!ScenarioKept
=============================================================================
