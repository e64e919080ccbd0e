----------------------------- MODULE Onboarding -----------------------------
(***************************************************************************)
(* The setup of Codex on a host: the onboarding actor and the pages that   *)
(* show it (actors/onboarding-actor.ts, SetupPage.tsx, SettingsPage.tsx),  *)
(* and what they ask of the Agent's setup service (v2/services/            *)
(* setup-service.ts): the status, the network, the installation, the       *)
(* device-code login and the restart of the app-server.                    *)
(*                                                                         *)
(* The Agent writes answers and events to one ordered connection; what is  *)
(* on it is lost when it breaks.  The app-server and its lock belong to    *)
(* module Runtime.                                                         *)
(***************************************************************************)
EXTENDS Naturals, Sequences

CONSTANTS MaxClicks,    \* bound on what the user of the page asks for
          MaxOthers     \* bound on faults and on what other devices do

VARIABLES host,     \* facts of the host: network, installed, account, healthy
          install,  \* SetupService.#installOperation and how far it is
          logins,   \* SetupService.#loginOperations
          expiring, \* logins that #expireLogin has forgotten and is cancelling
          op,       \* the mutation of the page that is under way
          wire,     \* answers and events the page has not handled
          link,     \* whether the connection is up
          page,     \* OnboardingState
          load,     \* the LOAD effect: what setup/status has read so far
          login,    \* SetupPage: the login panel, 0 for none
          behind,   \* ghost: nobody has told the actor to look since a change
          missed,   \* ghost: whose end the page was not told of
          count     \* clicks, others, loads, logins so far

setup == <<host, install, logins, expiring>>
view == <<page, load, login>>
ghosts == <<behind, missed>>
vars == <<setup, op, wire, link, view, ghosts, count>>

NoLoad == [n |-> 0, stage |-> 0, network |-> FALSE, installed |-> FALSE, healthy |-> FALSE,
           account |-> FALSE]
NoOp == [kind |-> "none", at |-> "none", id |-> 0, inspect |-> FALSE, ok |-> FALSE]
Durable == {"configure", "install", "logout"}
Over == {"none", "completed", "failed"}

Spend(what) == count' = [count EXCEPT ![what] = @ + 1]

\* One answer per mutation; ok is FALSE for an error.
Answer(ok, id) == [type |-> "answer", ok |-> ok, id |-> id]
Progress(phase) == [type |-> "progress", phase |-> phase]
Completion(id, ok) == [type |-> "login", id |-> id, ok |-> ok]

\* #emit: to every connected device.
Emit(e) == wire' = IF link THEN Append(wire, e) ELSE wire

----------------------------------------------------------------------------
(* The actor.                                                              *)

setupStep(s) ==
  IF ~s.network THEN "network"
  ELSE IF ~s.installed THEN "install"
  ELSE IF ~s.account THEN "codex-login"
  ELSE "ready"

\* INSPECT starts a LOAD in place of the one that runs.
Inspect(p) ==
  /\ page' = [p EXCEPT !.loading = TRUE, !.error = FALSE]
  /\ load' = [NoLoad EXCEPT !.n = count.loads + 1, !.stage = 1]
  /\ behind' = FALSE

\* INSTALL_STARTED and LOGIN_STARTED end the LOAD that runs and start none.
Cancels(p) ==
  /\ page' = [p EXCEPT !.error = FALSE]
  /\ load' = NoLoad
  /\ behind' = (behind \/ load # NoLoad)

\* What the account says of the app-server that answers.
Authenticated == host.healthy /\ host.account

----------------------------------------------------------------------------
(* The pages.                                                              *)

Clicks(kind, id, inspect) ==
  /\ op = NoOp /\ link /\ count.clicks < MaxClicks
  /\ op' = [kind |-> kind, at |-> "sent", id |-> id, inspect |-> inspect, ok |-> FALSE]
  /\ Spend("clicks")

\* SetupPage: direct or a proxy.
Configure ==
  /\ Clicks("configure", 0, TRUE)
  /\ UNCHANGED <<setup, wire, link, view, ghosts>>

\* SetupPage: the button is disabled while an installation is shown.
InstallFromSetup ==
  /\ page.progress \in Over
  /\ Clicks("install", 0, FALSE)
  /\ Cancels([page EXCEPT !.progress = "none"])
  /\ missed' = missed \ {"install"}
  /\ UNCHANGED <<setup, wire, link, login>>

\* SettingsPage is open only to a host that is ready, and SetupPage with its
\* panel is gone meanwhile.
Settings(kind) ==
  /\ page.step = "ready"
  /\ Clicks(kind, 0, TRUE)
  /\ login' = 0 /\ missed' = missed \ {"login"}
  /\ UNCHANGED <<setup, wire, link, page, load, behind>>

GetCode ==
  /\ login = 0
  /\ Clicks("login", 0, FALSE)
  /\ Cancels([page EXCEPT !.completion = 0])
  /\ missed' = missed \ {"login"}
  /\ UNCHANGED <<setup, wire, link, login>>

CancelCode ==
  /\ login # 0
  /\ Clicks("cancel", login, TRUE)
  /\ UNCHANGED <<setup, wire, link, view, ghosts>>

----------------------------------------------------------------------------
(* setup/status: four reads, one after the other.                          *)

ReadStatus ==
  /\ load.stage \in 1 .. 4
  /\ load' = CASE load.stage = 1 -> [load EXCEPT !.stage = 2, !.network = host.network]
               [] load.stage = 2 -> [load EXCEPT !.stage = 3, !.installed = host.installed]
               [] load.stage = 3 -> [load EXCEPT !.stage = 4, !.healthy = host.healthy]
               [] load.stage = 4 -> [load EXCEPT !.stage = 5,
                                       !.account = load.healthy /\ Authenticated]
  /\ UNCHANGED <<setup, op, wire, link, page, login, ghosts, count>>

AnswerStatus ==
  /\ load.stage = 5
  /\ load' = [load EXCEPT !.stage = 6]
  /\ wire' = Append(wire, [type |-> "status", status |-> load])
  /\ UNCHANGED <<setup, op, link, page, login, ghosts, count>>

\* setup/status throws: FAILED.
StatusFails ==
  /\ load.stage \in 1 .. 4 /\ count.others < MaxOthers
  /\ page' = [page EXCEPT !.loading = FALSE, !.error = TRUE]
  /\ load' = NoLoad
  /\ behind' = TRUE
  /\ Spend("others")
  /\ UNCHANGED <<setup, op, wire, link, login, missed>>

----------------------------------------------------------------------------
(* Mutations in the Agent.                                                 *)

\* CodexRuntimeGate.
GateFree == op.at # "running" /\ install # "switching"

Answered(ok, id) == op' = [op EXCEPT !.at = "answered", !.id = id, !.ok = ok]

\* #configureNetwork (module HostConfig).
ConfigureNetwork ==
  /\ op.kind = "configure" /\ op.at = "sent"
  /\ host' = [host EXCEPT !.network = TRUE]
  /\ Emit(Answer(TRUE, 0)) /\ Answered(TRUE, 0)
  /\ UNCHANGED <<install, logins, expiring, link, view, ghosts, count>>

\* #startInstall joins an installation that runs.
StartInstall ==
  /\ op.kind = "install" /\ op.at = "sent"
  /\ \/ /\ install # "none"
        /\ Emit(Answer(TRUE, 0)) /\ Answered(TRUE, 0)
        /\ UNCHANGED install
     \/ /\ install = "none" /\ logins = {}
        /\ install' = "preparing"
        /\ wire' = IF link THEN wire \o <<Progress("preparing"), Answer(TRUE, 0)>> ELSE wire
        /\ Answered(TRUE, 0)
     \/ /\ install = "none" /\ logins # {}
        /\ Emit(Answer(FALSE, 0)) /\ Answered(FALSE, 0)
        /\ UNCHANGED install
  /\ UNCHANGED <<host, logins, expiring, link, view, ghosts, count>>

\* #runInstall: the progress of installCodexForCurrentUser, then the switch of
\* the app-server under the gate.
RunInstall ==
  \/ /\ install = "preparing"
     /\ install' = "installing" /\ Emit(Progress("installing"))
     /\ UNCHANGED host
  \/ /\ install = "installing"
     /\ install' = "verifying" /\ Emit(Progress("verifying"))
     /\ host' = [host EXCEPT !.installed = TRUE]
  \/ /\ install = "verifying" /\ GateFree /\ logins = {}
     /\ install' = "switching"
     /\ host' = [host EXCEPT !.healthy = FALSE]
     /\ UNCHANGED wire
  \/ /\ install = "switching"
     /\ install' = "none" /\ Emit(Progress("completed"))
     /\ host' = [host EXCEPT !.healthy = TRUE]

InstallStep == RunInstall /\ UNCHANGED <<logins, expiring, op, link, view, ghosts, count>>

\* npm fails, a login runs when the switch is due, or the restart fails.
InstallFails ==
  /\ install # "none"
  /\ \/ install = "verifying" /\ logins # {} /\ UNCHANGED count
     \/ count.others < MaxOthers /\ Spend("others")
  /\ install' = "none"
  /\ Emit(Progress("failed"))
  /\ UNCHANGED <<host, logins, expiring, op, link, view, ghosts>>

\* #startLogin ensures the app-server and asks Codex for a device code.  That
\* the app-server runs again, perhaps with an account, is announced to nobody.
StartLogin ==
  /\ op.kind = "login" /\ op.at = "sent" /\ GateFree
  /\ host.installed
  /\ host' = [host EXCEPT !.healthy = TRUE]
  /\ behind' = (behind \/ ~host.healthy)
  /\ \/ /\ logins' = logins \cup {count.logins + 1}
        /\ Emit(Answer(TRUE, count.logins + 1)) /\ Answered(TRUE, count.logins + 1)
        /\ Spend("logins")
     \/ /\ count.others < MaxOthers /\ Spend("others")
        /\ Emit(Answer(FALSE, 0)) /\ Answered(FALSE, 0)
        /\ UNCHANGED logins
  /\ UNCHANGED <<install, expiring, link, view, missed>>

\* A handler fails before it has changed anything: the file cannot be written, a
\* task is active, Codex is not installed.
Refused ==
  /\ op.kind \in {"configure", "install", "login", "logout", "restart"} /\ op.at = "sent"
  /\ \/ op.kind = "login" /\ GateFree /\ ~host.installed /\ UNCHANGED count
     \/ count.others < MaxOthers /\ Spend("others")
  /\ Emit(Answer(FALSE, 0)) /\ Answered(FALSE, 0)
  /\ UNCHANGED <<setup, link, view, ghosts>>

\* account/login/completed, handled by #completeLogin in one step.
CompleteLogin(id, ok) ==
  /\ id \in logins
  /\ logins' = logins \ {id}
  /\ host' = [host EXCEPT !.account = @ \/ ok]
  /\ Emit(Completion(id, ok))
  /\ UNCHANGED <<install, expiring, op, link, view, ghosts, count>>

\* #expireLogin forgets the login and asks Codex to cancel it.
ExpireLogin(id) ==
  /\ id \in logins
  /\ logins' = logins \ {id} /\ expiring' = expiring \cup {id}
  /\ UNCHANGED <<host, install, op, wire, link, view, ghosts, count>>

\* The answer, or the error that is ignored, and the event.  The user may have
\* completed the login in Codex meanwhile: its notification finds no operation.
LoginExpired(id) ==
  /\ id \in expiring
  /\ expiring' = expiring \ {id}
  /\ \E won \in BOOLEAN : host' = [host EXCEPT !.account = @ \/ won]
  /\ Emit(Completion(id, FALSE))
  /\ UNCHANGED <<install, logins, op, link, view, ghosts, count>>

\* #cancelLogin forgets the operation and then tells Codex.
CancelLogin ==
  /\ op.kind = "cancel" /\ op.at = "sent" /\ GateFree
  /\ logins' = logins \ {op.id}
  /\ op' = [op EXCEPT !.at = "running", !.ok = op.id \in logins]
  /\ UNCHANGED <<host, install, expiring, wire, link, view, ghosts, count>>

\* The request fails or its client is lost.  The operation stays forgotten, and
\* the page, which is told of an error, keeps the code.
CancelFails ==
  /\ op.ok /\ count.others < MaxOthers
  /\ Emit(Answer(FALSE, 0)) /\ Answered(FALSE, op.id)
  /\ behind' = TRUE /\ missed' = missed \cup {"login"}
  /\ Spend("others")

\* The user may have completed the login in Codex before the cancel came: its
\* notification finds no operation.
CancelAnswered ==
  /\ op.kind = "cancel" /\ op.at = "running"
  /\ \E won \in {FALSE, op.ok} : host' = [host EXCEPT !.account = @ \/ won]
  /\ \/ /\ Emit(Answer(TRUE, 0)) /\ Answered(TRUE, op.id)
        /\ UNCHANGED <<ghosts, count>>
     \/ CancelFails
  /\ UNCHANGED <<install, logins, expiring, link, view>>

\* #restart under the gate.
Restart ==
  /\ op.kind = "restart" /\ op.at = "sent" /\ GateFree
  /\ IF logins # {}
     THEN Emit(Answer(FALSE, 0)) /\ Answered(FALSE, 0) /\ UNCHANGED host
     ELSE /\ op' = [op EXCEPT !.at = "running"]
          /\ host' = [host EXCEPT !.healthy = FALSE] /\ UNCHANGED wire
  /\ UNCHANGED <<install, logins, expiring, link, view, ghosts, count>>

RestartDone ==
  /\ op.kind = "restart" /\ op.at = "running"
  /\ \/ /\ host' = [host EXCEPT !.healthy = TRUE]
        /\ Emit(Answer(TRUE, 0)) /\ Answered(TRUE, 0)
        /\ UNCHANGED <<behind, count>>
     \/ /\ count.others < MaxOthers /\ Spend("others")
        /\ Emit(Answer(FALSE, 0)) /\ Answered(FALSE, 0)
        /\ behind' = TRUE
        /\ UNCHANGED host
  /\ UNCHANGED <<install, logins, expiring, link, view, missed>>

\* #logout; the request may fail after Codex has logged out.
Logout ==
  /\ op.kind = "logout" /\ op.at = "sent" /\ GateFree
  /\ host' = [host EXCEPT !.account = FALSE]
  /\ \/ /\ Emit(Answer(TRUE, 0)) /\ Answered(TRUE, 0)
        /\ UNCHANGED <<behind, count>>
     \/ /\ count.others < MaxOthers /\ Spend("others")
        /\ Emit(Answer(FALSE, 0)) /\ Answered(FALSE, 0)
        /\ behind' = TRUE
  /\ UNCHANGED <<install, logins, expiring, link, view, missed>>

----------------------------------------------------------------------------
(* What the page handles.                                                  *)

\* LOADED, and the effect of SetupPage on a new status: an account closes the
\* login panel.
Loaded(s) ==
  /\ s.n = load.n
  /\ page' = [page EXCEPT !.loading = FALSE, !.step = setupStep(s), !.error = FALSE]
  /\ load' = NoLoad
  /\ login' = IF s.account THEN 0 ELSE login
  /\ UNCHANGED <<setup, op, link, ghosts, count>>

\* The answer to a LOAD that was cancelled.
Dropped(s) == s.n # load.n /\ UNCHANGED <<setup, op, link, view, ghosts, count>>

\* INSTALL_PROGRESS, followed by INSPECT when the installation is over.
InstallProgress(e) ==
  LET p == [page EXCEPT !.progress = e.phase, !.error = FALSE] IN
  /\ IF e.phase \in Over THEN Inspect(p) /\ Spend("loads")
     ELSE page' = p /\ UNCHANGED <<load, behind, count>>
  /\ UNCHANGED <<setup, op, link, login, missed>>

MutLoginCompleted(e) ==
  /\ page' = [page EXCEPT !.completion = e.id, !.error = ~e.ok]
  /\ login' = IF login = e.id THEN 0 ELSE login
  /\ UNCHANGED <<setup, op, link, load, behind, count, missed>>

\* LOGIN_COMPLETED and INSPECT; the panel of this login closes.
LoginCompleted(e) ==
  /\ Inspect([page EXCEPT !.completion = e.id]) /\ Spend("loads")
  /\ login' = IF login = e.id THEN 0 ELSE login
  /\ UNCHANGED <<setup, op, link, missed>>

\* mutate and runLifecycle: the answer ends the operation, and a success is
\* followed by INSPECT where the page asked for it.
Settles(e) ==
  /\ op' = NoOp
  /\ login' = CASE op.kind = "login" /\ e.ok /\ page.completion # e.id -> e.id
                [] op.kind = "cancel" /\ e.ok -> 0
                [] OTHER -> login
  /\ IF e.ok /\ op.inspect
     THEN /\ Inspect(IF op.kind = "restart" THEN [page EXCEPT !.progress = "none"] ELSE page)
          /\ Spend("loads")
     ELSE UNCHANGED <<page, load, behind, count>>
  /\ UNCHANGED <<setup, link, missed>>

Handle ==
  /\ wire # <<>>
  /\ wire' = Tail(wire)
  /\ LET e == Head(wire) IN
     \/ e.type = "status" /\ (Loaded(e.status) \/ Dropped(e.status))
     \/ e.type = "progress" /\ InstallProgress(e)
     \/ e.type = "login" /\ LoginCompleted(e)
     \/ e.type = "answer" /\ Settles(e)

----------------------------------------------------------------------------
(* The connection and everybody else.                                      *)

\* The requests of the page fail, except the mutations that are repeated.
Cut ==
  /\ link' = FALSE /\ wire' = <<>>
  /\ load' = NoLoad /\ behind' = TRUE
  /\ page' = [page EXCEPT !.loading = FALSE, !.error = @ \/ load # NoLoad]
  /\ op' = IF op.kind \in Durable \/ op.at = "running" THEN op ELSE NoOp
  /\ missed' = {"install", "login"}
  /\ Spend("others")

Disconnect ==
  /\ link /\ count.others < MaxOthers
  /\ Cut
  /\ UNCHANGED <<setup, login>>

\* The Agent is restarted: its operations are gone.
AgentRestarts ==
  /\ link /\ count.others < MaxOthers /\ op.at # "running"
  /\ Cut
  /\ install' = "none" /\ logins' = {} /\ expiring' = {}
  /\ UNCHANGED <<host, login>>

\* #restoreAuthoritativeState; a durable mutation that was executed is
\* answered again (module MutationClient).
Reconnect ==
  /\ ~link /\ link' = TRUE /\ op.at # "running"
  /\ op' = IF op.kind \in Durable THEN op ELSE NoOp
  /\ wire' = IF op.kind \in Durable /\ op.at = "answered" THEN <<Answer(op.ok, op.id)>>
             ELSE <<>>
  /\ Inspect(page) /\ Spend("loads")
  /\ UNCHANGED <<setup, login, missed>>

\* Another device installs Codex or logs in: this page gets the events.
InstallElsewhere ==
  /\ install = "none" /\ logins = {} /\ count.others < MaxOthers
  /\ install' = "preparing" /\ Emit(Progress("preparing"))
  /\ Spend("others")
  /\ UNCHANGED <<host, logins, expiring, op, link, view, ghosts>>

LoginElsewhere ==
  /\ host.installed /\ GateFree /\ count.others < MaxOthers
  /\ logins' = logins \cup {count.logins + 1}
  /\ count' = [count EXCEPT !.logins = @ + 1, !.others = @ + 1]
  /\ UNCHANGED <<host, install, expiring, op, wire, link, view, ghosts>>

\* Another device or a command configures the network, logs in or out, a login
\* the Agent has forgotten comes through, or the app-server ends: nobody is told.
ChangedElsewhere ==
  /\ count.others < MaxOthers /\ GateFree
  /\ \E h \in {[host EXCEPT !.network = TRUE], [host EXCEPT !.account = FALSE],
               [host EXCEPT !.account = host.installed],
               [host EXCEPT !.healthy = FALSE]} :
       h # host /\ host' = h
  /\ behind' = TRUE
  /\ Spend("others")
  /\ UNCHANGED <<install, logins, expiring, op, wire, link, view, missed>>

----------------------------------------------------------------------------
Init ==
  /\ host \in {[network |-> FALSE, installed |-> FALSE, account |-> FALSE, healthy |-> FALSE],
               [network |-> TRUE, installed |-> TRUE, account |-> FALSE, healthy |-> TRUE],
               [network |-> TRUE, installed |-> TRUE, account |-> TRUE, healthy |-> TRUE]}
  /\ install = "none" /\ logins = {} /\ expiring = {} /\ op = NoOp
  /\ wire = <<>> /\ link = TRUE
  /\ page = [step |-> "inspect", loading |-> TRUE, error |-> FALSE,
             progress |-> "none", completion |-> 0]
  /\ load = [NoLoad EXCEPT !.n = 1, !.stage = 1]
  /\ login = 0
  /\ behind = FALSE /\ missed = {}
  /\ count = [clicks |-> 0, others |-> 0, loads |-> 1,
              logins |-> 0]

Next ==
  \/ Configure \/ InstallFromSetup \/ GetCode \/ CancelCode
  \/ \E kind \in {"install", "restart", "logout"} : Settings(kind)
  \/ ReadStatus \/ AnswerStatus \/ StatusFails
  \/ ConfigureNetwork \/ StartInstall \/ InstallStep \/ InstallFails
  \/ StartLogin \/ Refused \/ CancelLogin \/ CancelAnswered
  \/ \E id \in logins, ok \in BOOLEAN : CompleteLogin(id, ok)
  \/ \E id \in logins : ExpireLogin(id)
  \/ \E id \in expiring : LoginExpired(id)
  \/ Restart \/ RestartDone \/ Logout
  \/ Handle
  \/ Disconnect \/ AgentRestarts \/ Reconnect
  \/ InstallElsewhere \/ LoginElsewhere \/ ChangedElsewhere

Spec == Init /\ [][Next]_vars

----------------------------------------------------------------------------
(* Properties.                                                             *)

Quiet == link /\ wire = <<>> /\ load = NoLoad /\ op = NoOp /\ install = "none" /\ expiring = {}

\* When everything has been handled the page is at the step the host is at,
\* whatever events, answers and readings overtook each other, unless the change
\* was announced to nobody, the look at the host failed, or a click cut it short
\* (INSTALL_STARTED and LOGIN_STARTED end a LOAD and start none).
StepCatchesUp ==
  Quiet /\ ~behind => page.step = setupStep([host EXCEPT !.account = Authenticated])

\* When everything has been handled the login panel shows a code that can still
\* be used and no installation is shown that does not run, which would disable the
\* button for good, unless the event that ended it went down with a connection or
\* a cancel failed after the Agent had forgotten the login (setup-service.ts:433).
ControlsTruthful ==
  Quiet => /\ login # 0 /\ "login" \notin missed => login \in logins
           /\ "install" \notin missed => page.progress \in Over

=============================================================================
