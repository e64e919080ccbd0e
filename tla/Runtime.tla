------------------------------ MODULE Runtime -------------------------------
(***************************************************************************)
(* The Codex app-server of a user: a detached process that outlives the    *)
(* agent, found by its socket, its process record and the reservation of   *)
(* its start.  app-server-supervisor starts and replaces it, from the      *)
(* agent and from the command line, under a lock of its own;               *)
(* SetupService installs Codex, logs in and restarts behind the runtime    *)
(* gate that every request which can begin work passes as well.            *)
(*                                                                         *)
(* Attempts to start the server are numbered; the number is the nonce of   *)
(* the reservation, the process that the attempt spawns and the record of  *)
(* that process.  Whether a recorded process is alive is known exactly     *)
(* (start time and boot id, see StateLock).  A probe fails when nothing    *)
(* serves the socket, and may fail when the server is slow.  A holder that *)
(* dies loses its locks.                                                   *)
(***************************************************************************)
EXTENDS Naturals, FiniteSets

CONSTANTS MaxStarts,    \* bound on attempts to start the server
          MaxInstalls,  \* bound on installations
          MaxCrashes,   \* bound on crashes of supervisors and reboots
          MaxTurns,     \* bound on requests that begin work
          MaxCalls,     \* bound on calls that need a server and on operations of the user
          None

ASSUME RuntimeAssumption ==
    {MaxStarts, MaxInstalls, MaxCrashes, MaxTurns, MaxCalls} \subseteq Nat

Supervisor == {"agent", "cli"}
GateHolders == {"turn", "login", "install", "restart", "cancel"}

ASSUME NobodyAssumption == None \notin Supervisor \cup GateHolders

Starts == 1 .. MaxStarts
Versions == 0 .. MaxInstalls

VARIABLES
    lock,         \* supervisor lock
    pc, call,     \* where each supervisor is, and in which call: ensure, restart
    operation,         \* the operation the agent's supervisor works for
    result,       \* what the call returned to it
    seen,         \* the record that a call has read
    nonce,        \* its attempt
    record,       \* process record, 0 when there is none
    reservation,  \* reservation of a start
    socket,       \* whose socket file there is, 0 for none
    status,       \* of the processes
    version,      \* Codex version each of them runs
    starts, boots, crashes, turns, calls,
    gate,         \* holder of the runtime gate
    asking,       \* whose request behind the gate is with the server
    active,       \* a task is running
    install, restart, login,  \* where the operations of SetupService are
    mark,         \* runtime switch state on disk
    binary        \* Codex version that is installed

supervisorVars == <<lock, pc, call, operation, result, seen, nonce>>
files == <<record, reservation, socket>>
processes == <<status, version>>
bounds == <<starts, boots, crashes, turns, calls>>
work == <<gate, asking, active>>
setup == <<install, restart, login, mark, binary>>
runtimeVars == <<supervisorVars, files, processes, bounds, work, setup>>

NoReservation == [nonce |-> 0, boot |-> 0]

(* Nothing runs and nothing is left of an earlier server. *)
RuntimeInit ==
    /\ lock = None /\ pc = [s \in Supervisor |-> "idle"]
    /\ call = [s \in Supervisor |-> "ensure"] /\ operation = "none" /\ result = "none"
    /\ seen = [s \in Supervisor |-> 0] /\ nonce = [s \in Supervisor |-> 0]
    /\ record = 0 /\ reservation = NoReservation /\ socket = 0
    /\ status = [n \in Starts |-> "none"] /\ version = [n \in Starts |-> 0]
    /\ starts = 0 /\ boots = 0 /\ crashes = 0 /\ turns = 0
    /\ calls = 0 /\ gate = None /\ asking = None /\ active = FALSE
    /\ install = "none" /\ restart = "none" /\ login = "none"
    /\ mark = "none" /\ binary = 0

-----------------------------------------------------------------------------
(***************************************************************************)
(* Processes                                                               *)
(***************************************************************************)
Alive(n) == n \in Starts /\ status[n] \in {"starting", "serving", "hung"}

(* probeAppServer succeeds only here. *)
Serving == socket \in Starts /\ status[socket] = "serving"

(* The end of a process: its task is gone, its connections are closed and what was
   asked of it is rejected (#handleClose), which releases the gate. *)
Ends(n) ==
    /\ status' = [status EXCEPT ![n] = "dead"]
    /\ active' = FALSE /\ asking' = None
    /\ gate' = IF asking # None THEN None ELSE gate
    /\ login' = CASE login = "active" -> "lost" [] login = "asked" -> "none"
                 [] OTHER -> login

(* The server binds its socket and answers; later it may stop answering. *)
Serves(n) ==
    /\ status[n] = "starting" /\ socket = 0
    /\ status' = [status EXCEPT ![n] = "serving"] /\ socket' = n
    /\ UNCHANGED <<supervisorVars, record, reservation, version, bounds, work, setup>>

Hangs(n) ==
    /\ crashes < MaxCrashes /\ crashes' = crashes + 1
    /\ status[n] = "serving" /\ status' = [status EXCEPT ![n] = "hung"]
    /\ UNCHANGED <<supervisorVars, files, version, starts, boots, turns, calls, work, setup>>

Dies(n) ==
    /\ crashes < MaxCrashes /\ crashes' = crashes + 1
    /\ Alive(n) /\ Ends(n)
    /\ UNCHANGED <<supervisorVars, files, version, starts, boots, turns, calls, install,
                   restart, mark, binary>>

-----------------------------------------------------------------------------
(***************************************************************************)
(* The supervisor                                                          *)
(***************************************************************************)
Goto(s, label) == pc' = [pc EXCEPT ![s] = label]

(* The lock is released; the agent's operation finds the result. *)
Return(s, r) ==
    /\ lock' = None
    /\ result' = IF s = "agent" THEN r ELSE result
    /\ Goto(s, IF s = "agent" /\ operation # "lease" THEN "returned" ELSE "idle")
    /\ operation' = IF s = "agent" /\ operation = "lease" THEN "none" ELSE operation
    /\ seen' = [seen EXCEPT ![s] = 0] /\ nonce' = [nonce EXCEPT ![s] = 0]
    /\ call' = [call EXCEPT ![s] = "ensure"]

Stay == UNCHANGED <<lock, call, operation, result>>

(* Mutant: a lock that is held is taken for a dead holder's. *)
SupervisorLockFree == TRUE

(* ProcessLock.acquire *)
LockFree == lock = None

(* acquireSupervisorLock, for ensureAppServer or restartAppServer *)
AcquireSupervisorLock(s) ==
    /\ pc[s] = "lock" /\ LockFree /\ lock' = s
    /\ Goto(s, IF call[s] = "ensure" THEN "probe" ELSE "restart")
    /\ UNCHANGED <<call, operation, result, seen, nonce, files, processes, bounds, work,
                   setup>>

(* ensureAppServerLocked *)
ProbeFirst(s) ==
    /\ pc[s] = "probe"
    /\ \/ Serving /\ Return(s, "ok")
       \/ Goto(s, "record") /\ Stay /\ UNCHANGED <<seen, nonce>>
    /\ UNCHANGED <<files, processes, bounds, work, setup>>

ReadRecord(s) ==
    /\ pc[s] = "record"
    /\ IF Alive(record)
       THEN /\ Return(s, "failed")
            /\ reservation' = IF reservation.nonce = record THEN NoReservation
                              ELSE reservation
       ELSE /\ seen' = [seen EXCEPT ![s] = record] /\ Goto(s, "reclaim") /\ Stay
            /\ UNCHANGED <<nonce, reservation>>
    /\ UNCHANGED <<record, socket, processes, bounds, work, setup>>

(* Mutant: a reservation whose supervisor is gone is nobody's. *)
ReclaimAny(s) == TRUE

(* A reservation may go when the record that was read is of the same attempt, or
   when the host has booted since. *)
Reclaimable(s) == reservation.nonce = seen[s] \/ reservation.boot # boots

ReclaimOrRejectStartupReservation(s) ==
    /\ pc[s] = "reclaim"
    /\ IF reservation = NoReservation \/ Reclaimable(s)
       THEN /\ reservation' = NoReservation /\ Goto(s, "rmRecord") /\ Stay
            /\ UNCHANGED <<seen, nonce>>
       ELSE Return(s, "failed") /\ UNCHANGED reservation
    /\ UNCHANGED <<record, socket, processes, bounds, work, setup>>

RemoveRecord(s) ==
    /\ pc[s] = "rmRecord" /\ record' = 0 /\ Goto(s, "rmSocket") /\ Stay
    /\ UNCHANGED <<seen, nonce, reservation, socket, processes, bounds, work, setup>>

(* A restart then begins like an ensure. *)
RemoveSocket(s) ==
    /\ pc[s] = "rmSocket" /\ socket' = 0
    /\ Goto(s, IF call[s] = "restart" THEN "probe" ELSE "reserve")
    /\ call' = [call EXCEPT ![s] = "ensure"]
    /\ seen' = [seen EXCEPT ![s] = 0]
    /\ UNCHANGED <<lock, operation, result, nonce, record, reservation, processes, bounds,
                   work, setup>>

PublishStartupReservation(s) ==
    /\ pc[s] = "reserve" /\ starts < MaxStarts /\ starts' = starts + 1
    /\ nonce' = [nonce EXCEPT ![s] = starts']
    /\ reservation' = [nonce |-> starts', boot |-> boots]
    /\ Goto(s, "spawn") /\ Stay
    /\ UNCHANGED <<seen, record, socket, processes, boots, crashes, turns, calls,
                   work, setup>>

(* Beyond the bound the call just fails. *)
OutOfStarts(s) ==
    /\ pc[s] = "reserve" /\ starts = MaxStarts /\ Return(s, "failed")
    /\ UNCHANGED <<files, processes, bounds, work, setup>>

Spawn(s) ==
    /\ pc[s] = "spawn"
    /\ \/ /\ status' = [status EXCEPT ![nonce[s]] = "starting"]
          /\ version' = [version EXCEPT ![nonce[s]] = binary]
          /\ Goto(s, "publish")
       \/ Goto(s, "cleanup") /\ UNCHANGED processes
    /\ Stay /\ UNCHANGED <<seen, nonce, files, bounds, work, setup>>

PublishOwner(s) ==
    /\ pc[s] = "publish" /\ Stay
    /\ \/ record' = nonce[s] /\ Goto(s, "wait")
       \/ Goto(s, "stop") /\ UNCHANGED record
    /\ UNCHANGED <<seen, nonce, reservation, socket, processes, bounds, work, setup>>

(* removeOwnedStartupReservation: only one's own *)
RemoveOwned(s) == IF reservation.nonce = nonce[s] THEN NoReservation ELSE reservation

(* The loop that waits for the server: it answers, it exits, or time is up. *)
WaitUntilReady(s) ==
    /\ pc[s] = "wait"
    /\ \/ /\ Serving /\ reservation.nonce = nonce[s] /\ Alive(nonce[s])
          /\ reservation' = RemoveOwned(s) /\ Return(s, "ok")
       \/ /\ Goto(s, "stop") /\ Stay /\ UNCHANGED <<seen, nonce, reservation>>
    /\ UNCHANGED <<record, socket, processes, bounds, work, setup>>

(* stopSpawnedChild waits until the child is gone. *)
StopSpawnedChild(s) ==
    /\ pc[s] = "stop" /\ Goto(s, "cleanup") /\ Stay
    /\ IF Alive(nonce[s]) THEN Ends(nonce[s])
       ELSE UNCHANGED <<status, gate, asking, active, login>>
    /\ UNCHANGED <<seen, nonce, files, version, bounds, install, restart, mark, binary>>

(* cleanupSpawnedChild: nothing that a successor has written *)
CleanupSpawnedChild(s) ==
    /\ pc[s] = "cleanup"
    /\ IF record \in {0, nonce[s]} THEN socket' = 0 /\ record' = 0
       ELSE UNCHANGED <<socket, record>>
    /\ reservation' = RemoveOwned(s)
    /\ Return(s, "failed")
    /\ UNCHANGED <<processes, bounds, work, setup>>

(* restartAppServer: the recorded process is stopped; without one nothing may answer.
   Recovery names the process it means. *)
Unexpected(s) == s = "cli" /\ record # seen[s]

RestartAppServer(s) ==
    /\ pc[s] = "restart"
    /\ \/ Unexpected(s) /\ Return(s, "failed")
       \/ /\ ~Unexpected(s) /\ Alive(record) /\ reservation.nonce \in {0, record}
          /\ seen' = [seen EXCEPT ![s] = record] /\ Goto(s, "term") /\ Stay
          /\ UNCHANGED nonce
       \/ Alive(record) /\ reservation.nonce \notin {0, record} /\ Return(s, "failed")
       \/ ~Alive(record) /\ Serving /\ Return(s, "failed")
       \/ /\ ~Unexpected(s) /\ ~Alive(record)
          /\ seen' = [seen EXCEPT ![s] = record] /\ Goto(s, "reclaim") /\ Stay
          /\ UNCHANGED nonce
    /\ UNCHANGED <<files, processes, bounds, work, setup>>

(* signalRecordedProcess: SIGTERM, and SIGKILL when it is still there *)
Signal(s, label) ==
    /\ pc[s] = label /\ Stay
    /\ UNCHANGED <<seen, nonce, files, version, bounds, install, restart, mark, binary>>

SignalTerm(s) ==
    /\ Signal(s, "term")
    /\ IF Alive(seen[s])
       THEN \/ Ends(seen[s]) /\ Goto(s, "reclaim")
            \/ Goto(s, "kill") /\ UNCHANGED <<status, gate, asking, active, login>>
       ELSE Goto(s, "reclaim") /\ UNCHANGED <<status, gate, asking, active, login>>

SignalKill(s) ==
    /\ Signal(s, "kill")
    /\ Goto(s, "reclaim")
    /\ IF Alive(seen[s]) THEN Ends(seen[s])
       ELSE UNCHANGED <<status, gate, asking, active, login>>

(* canForceKillAppServerProcess, or a process that survives even that *)
RefuseKill(s) ==
    /\ pc[s] = "kill" /\ Return(s, "failed")
    /\ UNCHANGED <<files, processes, bounds, work, setup>>

(* A call: of the command line (ce tui, ce app-server recover), of a lease that
   connects, or of an operation behind the gate.  Recovery names the process that the
   user saw hanging. *)
Call(s, c) == pc' = [pc EXCEPT ![s] = "lock"] /\ call' = [call EXCEPT ![s] = c]

CliCalls ==
    /\ pc["cli"] = "idle" /\ calls < MaxCalls /\ calls' = calls + 1
    /\ \/ Call("cli", "ensure") /\ UNCHANGED seen
       \/ /\ record # 0 /\ status[record] = "hung"
          /\ Call("cli", "restart") /\ seen' = [seen EXCEPT !["cli"] = record]
    /\ UNCHANGED <<lock, operation, result, nonce, files, processes, starts, boots, crashes,
                   turns, work, setup>>

LeaseConnects ==
    /\ pc["agent"] = "idle" /\ operation = "none" /\ calls < MaxCalls /\ calls' = calls + 1
    /\ Call("agent", "ensure") /\ operation' = "lease"
    /\ UNCHANGED <<lock, result, seen, nonce, files, processes, starts, boots, crashes,
                   turns, work, setup>>

-----------------------------------------------------------------------------
(***************************************************************************)
(* Work behind the gate: a turn from a page, the queue or ce tui           *)
(***************************************************************************)
Acquire(who) == gate = None /\ gate' = who

(* The turn is asked for over a connection there already is, without a timeout. *)
AskTurn ==
    /\ turns < MaxTurns /\ turns' = turns + 1
    /\ Acquire("turn") /\ Serving /\ asking' = "turn"
    /\ UNCHANGED <<supervisorVars, files, processes, starts, boots, crashes, calls,
                   active, setup>>

(* The server answers; the gate is released. *)
TurnAnswered ==
    /\ asking = "turn" /\ Serving /\ asking' = None /\ gate' = None
    /\ active' \in {active, TRUE}
    /\ UNCHANGED <<supervisorVars, files, processes, bounds, setup>>

TaskEnds ==
    /\ active /\ active' = FALSE
    /\ UNCHANGED <<supervisorVars, files, processes, bounds, gate, asking, setup>>

-----------------------------------------------------------------------------
(***************************************************************************)
(* Operations of SetupService                                              *)
(***************************************************************************)
(* inspectAppServer: starting while the supervisor of the reservation lives *)
Starting ==
    /\ reservation # NoReservation /\ record \in {0, reservation.nonce}
    /\ \E s \in Supervisor : nonce[s] = reservation.nonce

(* Mutant: a server that does not answer is taken for one that is not there. *)
SafeWhenSilent == login = "none" /\ (Serving => ~active)

(* #assertRuntimeRestartSafe: what it can learn in one look.  A probe may fail, and the
   check may refuse in any state: a lease is busy, a page of the list is malformed. *)
RestartSafe ==
    /\ login = "none"
    /\ \/ Serving /\ ~active
       \/ ~Starting /\ ~Alive(record)

(* The agent's supervisor is taken by one operation at a time (#serialize). *)
AskSupervisor(op, c) ==
    /\ operation = "none" /\ pc["agent"] = "idle" /\ operation' = op /\ Call("agent", c)
    /\ UNCHANGED <<lock, result, seen, nonce>>

Answered(op) ==
    /\ operation = op /\ pc["agent"] = "returned" /\ pc' = [pc EXCEPT !["agent"] = "idle"]
    /\ operation' = "none" /\ result' = "none"
    /\ UNCHANGED <<lock, call, seen, nonce>>

Others == UNCHANGED <<files, processes, bounds, asking, active>>

(* #startInstall: a second request joins the operation; the check comes before it. *)
StartInstall ==
    /\ install = "none" /\ binary < MaxInstalls /\ calls < MaxCalls /\ calls' = calls + 1
    /\ RestartSafe /\ install' = "preparing"
    /\ UNCHANGED <<supervisorVars, files, processes, starts, boots, crashes, turns, work,
                   restart, login, mark, binary>>

(* #runInstall *)
WriteInstalling ==
    /\ install = "preparing" /\ install' = "npm" /\ mark' = "installing"
    /\ Others /\ UNCHANGED <<supervisorVars, gate, restart, login, binary>>

Npm ==
    /\ install = "npm"
    /\ \/ binary' = binary + 1 /\ install' = "installed"
       \/ binary' \in {binary, binary + 1} /\ install' = "none"
    /\ Others /\ UNCHANGED <<supervisorVars, gate, restart, login, mark>>

WriteRestartRequired ==
    /\ install = "installed" /\ install' = "gate" /\ mark' = "restart"
    /\ Others /\ UNCHANGED <<supervisorVars, gate, restart, login, binary>>

InstallAcquires ==
    /\ install = "gate" /\ Acquire("install") /\ install' = "check"
    /\ Others /\ UNCHANGED <<supervisorVars, restart, login, mark, binary>>

InstallChecks ==
    /\ install = "check"
    /\ \/ RestartSafe /\ AskSupervisor("install", "restart")
          /\ install' = "restart" /\ UNCHANGED gate
       \/ install' = "none" /\ gate' = None /\ UNCHANGED supervisorVars
    /\ Others /\ UNCHANGED <<restart, login, mark, binary>>

InstallEnds ==
    /\ install = "restart" /\ Answered("install")
    /\ mark' = IF result = "ok" THEN "none" ELSE mark
    /\ install' = "none" /\ gate' = None
    /\ Others /\ UNCHANGED <<restart, login, binary>>

(* #restart, at the user's request *)
StartRestart ==
    /\ restart = "none" /\ calls < MaxCalls /\ calls' = calls + 1
    /\ Acquire("restart") /\ restart' = "check"
    /\ UNCHANGED <<supervisorVars, files, processes, starts, boots, crashes, turns, asking,
                   active, install, login, mark, binary>>

RestartChecks ==
    /\ restart = "check"
    /\ \/ RestartSafe /\ AskSupervisor("restart", "restart")
          /\ restart' = "restart" /\ UNCHANGED gate
       \/ restart' = "none" /\ gate' = None /\ UNCHANGED supervisorVars
    /\ Others /\ UNCHANGED <<install, login, mark, binary>>

(* Mutant: a restart that fails keeps the gate. *)
RestartDoneKeepsGate ==
    /\ restart = "restart" /\ Answered("restart")
    /\ IF result = "ok" THEN restart' = "read" /\ UNCHANGED gate
       ELSE restart' = "none" /\ UNCHANGED gate
    /\ Others /\ UNCHANGED <<install, login, mark, binary>>

RestartDone ==
    /\ restart = "restart" /\ Answered("restart")
    /\ IF result = "ok" THEN restart' = "read" /\ UNCHANGED gate
       ELSE restart' = "none" /\ gate' = None
    /\ Others /\ UNCHANGED <<install, login, mark, binary>>

ReadSwitch ==
    /\ restart = "read"
    /\ IF mark = "restart" THEN restart' = "clear" /\ UNCHANGED gate
       ELSE restart' = "none" /\ gate' = None
    /\ Others /\ UNCHANGED <<supervisorVars, install, login, mark, binary>>

ClearSwitch ==
    /\ restart = "clear" /\ mark' = "none" /\ restart' = "none" /\ gate' = None
    /\ Others /\ UNCHANGED <<supervisorVars, install, login, binary>>

(* #startLogin *)
StartLogin ==
    /\ login = "none" /\ calls < MaxCalls /\ calls' = calls + 1
    /\ Acquire("login") /\ login' = "ensure" /\ AskSupervisor("login", "ensure")
    /\ UNCHANGED <<files, processes, starts, boots, crashes, turns, asking, active,
                   install, restart, mark, binary>>

LoginEnsured ==
    /\ login = "ensure" /\ Answered("login")
    /\ IF result = "ok" /\ Serving
       THEN login' = "asked" /\ asking' = "login" /\ UNCHANGED gate
       ELSE login' = "none" /\ gate' = None /\ UNCHANGED asking
    /\ UNCHANGED <<files, processes, bounds, active, install, restart, mark, binary>>

LoginStarted ==
    /\ login = "asked" /\ Serving
    /\ login' \in {"active", "none"} /\ asking' = None /\ gate' = None
    /\ UNCHANGED <<supervisorVars, files, processes, bounds, active, install, restart,
                   mark, binary>>

(* #completeLogin at the server's word, #expireLogin at the timer's *)
CompleteLogin ==
    /\ login = "active" /\ login' = "none"
    /\ Others /\ UNCHANGED <<supervisorVars, gate, install, restart, mark, binary>>

ExpireLogin ==
    /\ login = "lost" /\ login' = "none"
    /\ Others /\ UNCHANGED <<supervisorVars, gate, install, restart, mark, binary>>

(* #cancelLogin: behind the gate, which it holds until the server has answered *)
CancelLogin ==
    /\ login \in {"active", "lost"} /\ gate = None /\ login' = "none"
    /\ IF login = "active" THEN asking' = "cancel" /\ gate' = "cancel"
       ELSE UNCHANGED <<asking, gate>>
    /\ UNCHANGED <<supervisorVars, files, processes, bounds, active, install, restart,
                   mark, binary>>

CancelAnswered ==
    /\ asking = "cancel" /\ Serving /\ asking' = None /\ gate' = None
    /\ UNCHANGED <<supervisorVars, files, processes, bounds, active, setup>>

-----------------------------------------------------------------------------
(***************************************************************************)
(* Crashes                                                                 *)
(***************************************************************************)
(* A supervisor's process dies and with it what it held; a request it had sent may
   still have been taken. *)
Stops(set) ==
    /\ pc' = [s \in Supervisor |-> IF s \in set THEN "idle" ELSE pc[s]]
    /\ call' = [s \in Supervisor |-> IF s \in set THEN "ensure" ELSE call[s]]
    /\ seen' = [s \in Supervisor |-> IF s \in set THEN 0 ELSE seen[s]]
    /\ nonce' = [s \in Supervisor |-> IF s \in set THEN 0 ELSE nonce[s]]
    /\ lock' = IF lock \in set THEN None ELSE lock
    /\ IF "agent" \in set
       THEN /\ operation' = "none" /\ result' = "none"
            /\ install' = "none" /\ restart' = "none" /\ login' = "none"
            /\ gate' = None /\ asking' = None
       ELSE UNCHANGED <<operation, result, install, restart, login, gate, asking>>

SupervisorCrashes(s) ==
    /\ crashes < MaxCrashes /\ crashes' = crashes + 1
    /\ pc[s] # "idle" \/ (s = "agent" /\ setup # <<"none", "none", "none", mark, binary>>)
    /\ Stops({s})
    /\ active' \in IF s = "agent" /\ asking = "turn" THEN {active, TRUE} ELSE {active}
    /\ UNCHANGED <<files, processes, starts, boots, turns, calls, mark, binary>>

(* The host boots again: every process is gone, the files are still there. *)
Reboot ==
    /\ crashes < MaxCrashes /\ crashes' = crashes + 1 /\ boots' = boots + 1
    /\ Stops(Supervisor)
    /\ status' = [n \in Starts |-> IF Alive(n) THEN "dead" ELSE status[n]]
    /\ active' = FALSE
    /\ UNCHANGED <<files, version, starts, turns, calls, mark, binary>>

-----------------------------------------------------------------------------
SupervisorStep(s) ==
    \/ AcquireSupervisorLock(s) \/ ProbeFirst(s) \/ ReadRecord(s)
    \/ ReclaimOrRejectStartupReservation(s) \/ RemoveRecord(s) \/ RemoveSocket(s)
    \/ PublishStartupReservation(s) \/ OutOfStarts(s) \/ Spawn(s) \/ PublishOwner(s)
    \/ WaitUntilReady(s) \/ StopSpawnedChild(s) \/ CleanupSpawnedChild(s)
    \/ RestartAppServer(s) \/ SignalTerm(s) \/ SignalKill(s) \/ RefuseKill(s)

InstallStep ==
    \/ WriteInstalling \/ Npm \/ WriteRestartRequired \/ InstallAcquires
    \/ InstallChecks \/ InstallEnds

RestartStep == RestartChecks \/ RestartDone \/ ReadSwitch \/ ClearSwitch

ServerStep == TurnAnswered \/ LoginStarted \/ CancelAnswered

RuntimeNext ==
    \/ \E s \in Supervisor : SupervisorStep(s) \/ SupervisorCrashes(s)
    \/ InstallStep \/ RestartStep \/ LoginEnsured \/ ServerStep
    \/ CliCalls \/ LeaseConnects \/ AskTurn \/ TaskEnds
    \/ StartInstall \/ StartRestart \/ StartLogin
    \/ CompleteLogin \/ ExpireLogin \/ CancelLogin
    \/ \E n \in Starts : Serves(n) \/ Hangs(n) \/ Dies(n)
    \/ Reboot

RuntimeSpec == RuntimeInit /\ [][RuntimeNext]_runtimeVars

(* The agent and the command line keep running what they have begun, and a server that
   serves answers. *)
RuntimeFairness ==
    /\ WF_runtimeVars(InstallStep) /\ WF_runtimeVars(RestartStep)
    /\ WF_runtimeVars(LoginEnsured) /\ WF_runtimeVars(ServerStep)
    /\ \A s \in Supervisor : WF_runtimeVars(SupervisorStep(s))

FairRuntimeSpec == RuntimeSpec /\ RuntimeFairness

-----------------------------------------------------------------------------
(***************************************************************************)
(* Properties                                                              *)
(***************************************************************************)
(* The supervisor's files name attempts there have been, and only the holder of the
   supervisor lock is inside a call (acquireSupervisorLock). *)
RuntimeTypeOK ==
    /\ lock \in Supervisor \cup {None} /\ gate \in GateHolders \cup {None}
    /\ \A s \in Supervisor : pc[s] \notin {"idle", "lock", "returned"} => lock = s
    /\ record \in 0 .. starts /\ socket \in 0 .. starts
    /\ reservation.nonce \in 0 .. starts /\ reservation.boot \in 0 .. boots
    /\ mark \in {"none", "installing", "restart"} /\ binary \in Versions
    /\ \A n \in Starts : n > starts => status[n] = "none"
    /\ asking # None => gate = asking

(* However supervisors crash and the host boots, a user never has two app-servers
   (app-server-supervisor refuses to start a second instance). *)
OneAppServer == Cardinality({n \in Starts : Alive(n)}) <= 1

(* The agent never signals a server with a task or a device login under way: what was
   checked behind the gate still holds when the signal is sent. *)
RestartSparesWork == pc["agent"] \in {"term", "kill"} => ~active /\ login # "active"

(* ensureAppServer, restartAppServer: both, through crashes, hanging servers, reboots. *)
AppServerKept == OneAppServer /\ RestartSparesWork

(* Whoever holds the gate releases it, unless the server has stopped answering (a turn
   has no timeout): no operation waits for another that waits for it. *)
Released == gate = None \/ \E n \in Starts : status[n] = "hung"
GateReleased == []<>Released

(* CHANGELOG.md: the mark of an installation is cleared only when the new server is
   there, so without a mark or an installation under way the server that serves is of
   the installed version. *)
SwitchMarkTruthful == mark = "none" /\ install = "none" /\ Serving => version[socket] = binary

-----------------------------------------------------------------------------
(***************************************************************************)
(* The inductive invariant behind AppServerKept                            *)
(***************************************************************************)
Outside == {"idle", "lock", "returned"}         \* without the supervisor lock
Clearing == {"rmRecord", "rmSocket", "reserve", "spawn", "cleanup"}
Spawning == {"publish", "wait", "stop"}        \* with a process of its own, perhaps

Places == Outside \cup Clearing \cup Spawning \cup
          {"probe", "record", "reclaim", "restart", "term", "kill"}

RuntimeShapes ==
    /\ pc \in [Supervisor -> Places]
    /\ call \in [Supervisor -> {"ensure", "restart"}]
    /\ seen \in [Supervisor -> Nat] /\ nonce \in [Supervisor -> Nat]
    /\ record \in Nat /\ reservation \in [nonce : Nat, boot : Nat]
    /\ status \in [Starts -> {"none", "starting", "serving", "hung", "dead"}]
    /\ starts \in 0 .. MaxStarts /\ boots \in Nat

(* A process is known by its record, or by a reservation that only its supervisor may
   withdraw before the next boot. *)
ServersKnown ==
    /\ \A n \in Starts :
         Alive(n) => record = n \/ reservation = [nonce |-> n, boot |-> boots]
    /\ \A m, n \in Starts : Alive(m) /\ Alive(n) => m = n

(* What a supervisor that is inside a call knows. *)
Informed(s) ==
    /\ pc[s] \notin Outside => lock = s
    /\ pc[s] = "reclaim" => seen[s] = record /\ ~Alive(record)
    /\ pc[s] \in {"term", "kill"} => seen[s] = record
    /\ pc[s] \in Clearing => \A n \in Starts : ~Alive(n)
    /\ pc[s] \in Spawning => \A n \in Starts : Alive(n) => n = nonce[s]
    /\ pc[s] \in {"rmSocket", "reserve", "spawn", "publish"} => record = 0
    /\ pc[s] \in {"spawn", "publish"} => reservation = [nonce |-> nonce[s], boot |-> boots]
    /\ pc[s] \in {"spawn"} \cup Spawning => nonce[s] \in Starts
    /\ pc[s] = "wait" => record = nonce[s]
    /\ pc[s] \in {"idle", "returned"} => call[s] = "ensure"
    /\ pc[s] \in {"restart", "term", "kill"} => call[s] = "restart"

(* Work is with a process. *)
WorkHasServer ==
    active \/ asking # None \/ login = "active" => \E n \in Starts : Alive(n)

(* Who holds the gate, and whom the agent's supervisor works for. *)
GateHeld ==
    /\ asking # None => gate = asking /\ asking \in {"turn", "login", "cancel"}
    /\ asking = "login" => login = "asked"
    /\ login \in {"ensure", "asked"} => gate = "login"
    /\ install \in {"check", "restart"} => gate = "install"
    /\ restart \in {"check", "restart", "read", "clear"} => gate = "restart"
    /\ operation = "install" => install = "restart"
    /\ operation = "restart" => restart = "restart"
    /\ operation = "login" => login = "ensure"
    /\ call["agent"] = "restart" => operation \in {"install", "restart"}

(* What RestartSafe has found stays so while the gate is held: if a task is running, it is
   not with the process that a restart would end. *)
RestartWarranted ==
    operation \in {"install", "restart"} =>
      /\ login = "none"
      /\ active => /\ ~Alive(record)
                   /\ \A s \in Supervisor : pc[s] = "publish" => ~Alive(nonce[s])

Supervised == RuntimeShapes /\ ServersKnown /\ \A s \in Supervisor : Informed(s)

RuntimeInv == /\ Supervised
              /\ WorkHasServer /\ GateHeld /\ RestartWarranted /\ RestartSparesWork
=============================================================================
