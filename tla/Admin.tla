-------------------------------- MODULE Admin --------------------------------
(***************************************************************************)
(* The life cycle of one managed Unix user: the administrator's mutations  *)
(* (AdminService behind the sudo helper), the root cron job that applies   *)
(* removals, the access marker the user's processes read, and the user's   *)
(* Agent with the watchdog that keeps it alive.                            *)
(*                                                                         *)
(* Every mutation runs in a helper process of its own and every minute     *)
(* cron starts a maintenance process; none of them holds a lock from its   *)
(* first read to its last write.  What protects them from each other is    *)
(* the revision of the user's row, compared when the status is written.    *)
(* The marker, the Agent and the user's files have no revision.            *)
(*                                                                         *)
(* The audit row at the end of an operation and its durable receipt are    *)
(* not read by anything modelled here (MutationReceipts has the receipts). *)
(***************************************************************************)
EXTENDS Naturals

CONSTANTS Op,            \* helper and maintenance processes
          MaxRequests,   \* bound: administrator requests of a behaviour
          MaxFaults      \* bound: process deaths, failed stops, refused accounts

ASSUME BoundsAssumption == MaxRequests \in Nat /\ MaxFaults \in Nat

VARIABLES user,      \* the row of managed_users: [status, revision, due]
          marker,    \* the <uid>.disabled file exists
          agent,     \* the user's Agent: [at, tmux]
          session,   \* the watchdog's tmux session exists
          watchdog,  \* the watchdog script and its crontab line are installed
          tick,      \* watchdog.sh.lock and what the script that made it does next:
                     \* "free" without a lock, "stale" when the script is gone
          data,      \* ~/.codex-everywhere exists
          ops,       \* the processes: [kind, at, revision]
          requests, faults,   \* counters for the bounds
          crossed,   \* ghost: a marker was removed under another operation's feet
          doubled,   \* ghost: two maintenance runs took one claim
          slipped    \* ghost: a start or a recovery that began before the marker wrote after it

account == <<user, marker>>
host   == <<agent, session, watchdog, tick, data>>
ghosts == <<crossed, doubled, slipped>>
vars   == <<account, host, ops, requests, faults, ghosts>>

Status  == {"unregistered", "enabled", "disabled", "removal_pending", "removing", "removed"}
Request == {"register", "disable", "enable", "schedule", "cancel", "recover"}
Idle    == [kind |-> "none", at |-> "idle", revision |-> 0]
NoAgent == [at |-> "off", tmux |-> FALSE]

TypeOK ==
  /\ user \in [status : Status, revision : Nat, due : BOOLEAN]
  /\ marker \in BOOLEAN
  /\ agent \in [at : {"off", "starting", "running"}, tmux : BOOLEAN]
  /\ session \in BOOLEAN /\ watchdog \in BOOLEAN /\ data \in BOOLEAN
  /\ tick \in {"free", "shut", "open", "stale"}
  /\ ops \in [Op -> [kind : Request \cup {"none", "maintain"},
                     at : {"idle", "claim", "mark", "stop", "wipe", "handoff", "commit", "unmark", "end"},
                     revision : Nat]]
  /\ requests \in 0..MaxRequests /\ faults \in 0..MaxFaults
  /\ crossed \in BOOLEAN /\ doubled \in BOOLEAN /\ slipped \in BOOLEAN

Init ==
  /\ user = [status |-> "unregistered", revision |-> 0, due |-> FALSE]
  /\ marker = FALSE
  /\ agent = NoAgent /\ session = FALSE
  /\ watchdog \in BOOLEAN /\ tick = "free"
  /\ data = TRUE
  /\ ops = [o \in Op |-> Idle]
  /\ requests = 0 /\ faults = 0
  /\ crossed = FALSE /\ doubled = FALSE /\ slipped = FALSE

----------------------------------------------------------------------------
(* Requests and their first read *)

Go(o, at) == ops' = [ops EXCEPT ![o].at = at]

\* The status each request demands, and the first thing it does after its check.
Allowed(k) == CASE k = "register" -> Status
                [] k \in {"disable", "schedule", "recover"} -> {"enabled"}
                [] k = "enable" -> {"disabled", "removed"}
                [] k = "cancel" -> {"removal_pending"}
\* Mutant: disable forgets the marker.
FirstStepUnmarked(k) == CASE k = "schedule" -> "mark"
                          [] k \in {"disable", "recover"} -> "stop"
                          [] k \in {"register", "enable", "cancel"} -> "commit"
FirstStep(k) == CASE k \in {"disable", "schedule"} -> "mark"
                  [] k = "recover" -> "stop"
                  [] k \in {"register", "enable", "cancel"} -> "commit"

\* The administrator's page sent the revision it last saw: a helper process
\* starts, reads the row and goes on only if the revision, the account and the
\* status are right.  A request refused here has touched nothing, so only those
\* that go on are steps of the model.
Begin(o, k) ==
  /\ ops[o] = Idle /\ requests < MaxRequests
  /\ user.status \in Allowed(k)
  /\ (k = "register") \/ (user.status # "unregistered")
  /\ requests' = requests + 1
  /\ ops' = [ops EXCEPT ![o] = [kind |-> k, at |-> FirstStep(k), revision |-> user.revision]]
  /\ UNCHANGED <<account, host, faults, ghosts>>

\* Mutant: claimed removals are not looked for again.
DueUnclaimed == user.status = "removal_pending" /\ user.due
\* dueRemovals: a pending removal whose time has come, or one already claimed.
Due == user.status = "removing" \/ (user.status = "removal_pending" /\ user.due)

\* Cron starts a maintenance run.  A row that is already "removing" is taken as
\* it is, whether the run that claimed it died or is still at work.
MaintenanceBegin(o) ==
  /\ ops[o] = Idle /\ Due
  /\ ops' = [ops EXCEPT ![o] = [kind |-> "maintain",
                                at |-> IF user.status = "removing" THEN "mark" ELSE "claim",
                                revision |-> user.revision]]
  /\ doubled' = (doubled \/ (user.status = "removing" /\ \E p \in Op : ops[p].kind = "maintain"))
  /\ UNCHANGED <<account, host, requests, faults, crossed, slipped>>

TimePasses ==
  /\ user.status = "removal_pending" /\ ~user.due
  /\ user' = [user EXCEPT !.due = TRUE]
  /\ UNCHANGED <<marker, host, ops, requests, faults, ghosts>>

----------------------------------------------------------------------------
(* The steps of an operation *)

\* AdminRepository.setStatus: one transaction that compares the revision.
SetStatus(o, status) ==
  /\ user.revision = ops[o].revision
  /\ user' = [status |-> status, revision |-> user.revision + 1, due |-> FALSE]

Conflict(o) == user.revision # ops[o].revision

\* #applyRemoval claims the row before it touches anything.
Claim(o) ==
  /\ ops[o].at = "claim"
  /\ SetStatus(o, "removing")
  /\ ops' = [ops EXCEPT ![o] = [kind |-> @.kind, at |-> "mark", revision |-> user.revision + 1]]
  /\ UNCHANGED <<marker, host, requests, faults, ghosts>>

\* setUserAccessDisabled(uid, true): the file is written whatever the row says now.
Mark(o) ==
  /\ ops[o].at = "mark"
  /\ marker' = TRUE
  /\ Go(o, "stop")
  /\ UNCHANGED <<user, host, requests, faults, ghosts>>

AfterStop(k) == CASE k \in {"disable", "schedule"} -> "commit"
                  [] k = "recover" -> "handoff"
                  [] k = "maintain" -> "wipe"

\* stopAgent finds an Agent only by its process record, which is the last thing
\* a starting Agent writes.  An Agent ended by SIGTERM exits with status 0, which
\* also ends the loop of its tmux session.
StopAgent(o) ==
  /\ ops[o].at = "stop"
  /\ Go(o, AfterStop(ops[o].kind))
  /\ agent' = IF agent.at = "running" THEN NoAgent ELSE agent
  /\ session' = (session /\ ~(agent.at = "running" /\ agent.tmux))
  /\ UNCHANGED <<account, watchdog, tick, data, requests, faults, ghosts>>

\* removeUserState: the whole directory, the watchdog script and its lock included.
Wipe(o) ==
  /\ ops[o].at = "wipe"
  /\ data' = FALSE /\ watchdog' = FALSE
  /\ tick' = IF tick = "stale" THEN "free" ELSE tick
  /\ Go(o, "commit")
  /\ UNCHANGED <<account, agent, session, requests, faults, ghosts>>

\* issueRecoveryHandoff runs the CLI as the user, which opens (or creates) the
\* user's state database.
Handoff(o) ==
  /\ ops[o].at = "handoff"
  /\ data' = TRUE
  /\ Go(o, "end")
  /\ slipped' = (slipped \/ Conflict(o))
  /\ UNCHANGED <<account, agent, session, watchdog, tick, requests, faults, crossed, doubled>>

Target(k) == CASE k \in {"register", "enable", "cancel"} -> "enabled"
               [] k = "disable" -> "disabled"
               [] k = "schedule" -> "removal_pending"
               [] k = "maintain" -> "removed"

\* The write of the row: refused when another operation has written it since the
\* read.  Registering a user that is already there returns the row as it is.
Commit(o) ==
  LET k == ops[o].kind IN
  /\ ops[o].at = "commit"
  /\ \/ /\ (k # "register") \/ (user.status = "unregistered")
        /\ SetStatus(o, Target(k))
        /\ ops' = [ops EXCEPT ![o] =
                      [kind |-> k, at |-> IF k \in {"enable", "cancel"} THEN "unmark" ELSE "end",
                       revision |-> user.revision + 1]]
     \/ /\ k = "register" /\ user.status # "unregistered"
        /\ Go(o, "end")
        /\ UNCHANGED user
  /\ UNCHANGED <<marker, host, requests, faults, ghosts>>

\* A lost comparison ends the operation: what it did to the marker, the Agent
\* and the files stays done.
Refused(o) ==
  /\ ops[o].at \in {"claim", "commit"} /\ ops[o].kind # "register"
  /\ Conflict(o)
  /\ Go(o, "end")
  /\ UNCHANGED <<account, host, requests, faults, ghosts>>

\* Another operation has written the marker and has not ended, or the row has
\* moved on since this one wrote it.
MarkerContested(o) ==
  \/ user.revision # ops[o].revision
  \/ \E p \in Op \ {o} : ops[p].at \in {"stop", "wipe"} \/ (ops[p].at = "commit" /\ ops[p].kind \in {"disable", "schedule", "maintain"})

\* setUserAccessDisabled(uid, false) after the row says enabled.
Unmark(o) ==
  /\ ops[o].at = "unmark"
  /\ marker' = FALSE
  /\ Go(o, "end")
  /\ crossed' = (crossed \/ MarkerContested(o))
  /\ UNCHANGED <<user, host, requests, faults, doubled, slipped>>

\* The audit row is appended and the process exits.
End(o) ==
  /\ ops[o].at = "end"
  /\ ops' = [ops EXCEPT ![o] = Idle]
  /\ UNCHANGED <<account, host, requests, faults, ghosts>>

\* The process dies, the Agent does not stop within ten seconds, or the Unix
\* account no longer matches: the operation ends where it is.
Fault(o) ==
  /\ ops[o] # Idle /\ faults < MaxFaults
  /\ faults' = faults + 1
  /\ ops' = [ops EXCEPT ![o] = Idle]
  /\ UNCHANGED <<account, host, requests, ghosts>>

OpStep(o) ==
  \/ Claim(o) \/ Mark(o) \/ StopAgent(o) \/ Wipe(o) \/ Handoff(o)
  \/ Commit(o) \/ Refused(o) \/ Unmark(o) \/ End(o)

----------------------------------------------------------------------------
(* The user's side: watchdog and Agent *)

\* The cron line of the user: with the directory watchdog.sh.lock there the script
\* exits; else it makes it and looks at the marker.
TickLook ==
  /\ watchdog /\ tick = "free"
  /\ tick' = IF marker THEN "shut" ELSE "open"
  /\ UNCHANGED <<account, agent, session, watchdog, data, ops, requests, faults, ghosts>>

\* The session is gone, with the Agent that ran in it.
SessionEnds ==
  /\ session' = FALSE
  /\ agent' = IF agent.tmux THEN NoAgent ELSE agent
  /\ UNCHANGED <<account, watchdog, data, ops, requests, faults, ghosts>>

\* With the marker it kills the session.
TickShut == tick = "shut" /\ tick' = "free" /\ SessionEnds

\* A log of more than 10 MiB is moved away, once the session that writes it has ended.
TickRotate == tick = "open" /\ session /\ UNCHANGED tick /\ SessionEnds

\* Without the marker it opens a session when there is none.
TickOpen ==
  /\ tick = "open" /\ tick' = "free"
  /\ session' = TRUE
  /\ UNCHANGED <<account, agent, watchdog, data, ops, requests, faults, ghosts>>

\* The script is killed, or the host loses power: its trap does not run, and the
\* directory stays.
TickDies ==
  /\ tick \in {"shut", "open"} /\ faults < MaxFaults
  /\ faults' = faults + 1
  /\ tick' = "stale"
  /\ UNCHANGED <<account, agent, session, watchdog, data, ops, requests, ghosts>>

WatchdogTick == TickLook \/ TickShut \/ TickOpen

\* runAgentServiceV2 begins with assertUserAccessEnabled: in the session's loop,
\* or detached where no watchdog is installed.
AgentStart ==
  /\ agent.at = "off" /\ ~marker
  /\ session \/ ~watchdog
  /\ agent' = [at |-> "starting", tmux |-> session]
  /\ UNCHANGED <<account, session, watchdog, tick, data, ops, requests, faults, ghosts>>

\* It creates its files, opens its state and, last, writes the process record.
AgentReady ==
  /\ agent.at = "starting"
  /\ agent' = [agent EXCEPT !.at = "running"]
  /\ data' = TRUE
  /\ slipped' = (slipped \/ marker)
  /\ UNCHANGED <<account, session, watchdog, tick, ops, requests, faults, crossed, doubled>>

\* The Agent dies with an error (the loop of a session starts it again) or is
\* stopped by its user (the loop ends).
AgentDies ==
  /\ agent.at # "off" /\ faults < MaxFaults
  /\ faults' = faults + 1
  /\ agent' = NoAgent
  /\ session' \in (IF agent.tmux THEN {session, FALSE} ELSE {session})
  /\ UNCHANGED <<account, watchdog, tick, data, ops, requests, ghosts>>

Next ==
  \/ \E o \in Op : OpStep(o) \/ MaintenanceBegin(o) \/ Fault(o)
  \/ \E o \in Op, k \in Request : Begin(o, k)
  \/ TimePasses \/ AgentStart \/ AgentReady \/ AgentDies
  \/ WatchdogTick \/ TickRotate \/ TickDies

Spec == Init /\ [][Next]_vars

\* Processes run to their end, cron starts maintenance and the watchdog every
\* minute, and time passes.  Nothing forces a request, a start of the Agent or a log
\* to grow, and nothing ever removes a lock whose script is gone.
Fairness ==
  /\ \A o \in Op : WF_vars(OpStep(o)) /\ WF_vars(MaintenanceBegin(o))
  /\ WF_vars(WatchdogTick) /\ WF_vars(AgentReady) /\ WF_vars(TimePasses)

FairSpec == Spec /\ Fairness

----------------------------------------------------------------------------
(* Properties *)

\* A user the row does not call enabled cannot start an Agent: the marker is
\* written before the row and removed after it, so a process that dies between
\* the two leaves the user shut out rather than let in.  Excepted is the one
\* order the revision does not protect: a marker removed late, under a disable
\* or a removal that has already written it (enable pauses between setStatus and
\* setAccessDisabled).
ShutOutWhenNotEnabled ==
  (user.status \notin {"unregistered", "enabled"} /\ ~crossed) => marker

\* The same without the exception: what "revision concurrency protection" of
\* administrator changes promises.
DisabledIsShutOut ==
  user.status \notin {"unregistered", "enabled"} => marker

\* The user's files are deleted only under a claim: while the row says removing,
\* never after the removal was cancelled or the user enabled again.  Excepted is
\* a second maintenance run that took over a claim whose run was still at work.
WipedUnderClaim == (data /\ ~data') => (user.status = "removing" \/ doubled)

\* Once removed the user has neither files nor a running Agent.  Excepted are
\* the writers that do not compare a revision: an Agent past its access check
\* when the marker appeared, a recovery request older than the removal, and the
\* two orders above.
RemovedIsGone ==
  (user.status = "removed" /\ ~slipped /\ ~doubled /\ ~crossed)
    => (~data /\ agent.at # "running")

\* The three together: what the marker, the row and the files of a user promise,
\* whichever processes run side by side and wherever each of them dies.
AccessSafety ==
  /\ [](ShutOutWhenNotEnabled /\ RemovedIsGone)
  /\ [][WipedUnderClaim]_vars

\* A claimed removal is completed: the run that claimed it finishes, or a later
\* one takes the claim over after it died.  And an Agent in a watchdog session does
\* not outlive the marker, even one that was past its access check when the marker
\* appeared: except where a watchdog script was killed, whose lock makes every later
\* one exit before it looks at the marker.
Unclaimed == user.status # "removing"
ShutOut == marker /\ agent.tmux /\ agent.at = "running" /\ watchdog => tick = "stale"
RemovalFinishes == []<>(Unclaimed /\ ShutOut)

----------------------------------------------------------------------------
(* The inductive invariant behind AccessSafety *)

Shutting == {"disable", "schedule", "maintain"}

\* Which operations have which steps.
StepsOfKinds ==
  \A o \in Op :
    /\ ops[o].at \in {"claim", "wipe"} => ops[o].kind = "maintain"
    /\ ops[o].at = "mark" => ops[o].kind \in Shutting
    /\ ops[o].at = "stop" => ops[o].kind \in Shutting \cup {"recover"}
    /\ ops[o].at = "handoff" => ops[o].kind = "recover"
    /\ ops[o].at = "commit" => ops[o].kind \notin {"none", "recover"}

\* An operation never has a revision that does not exist yet; while the row is the
\* one it read, the status is one it may change, or the one it wrote.
RowsRead ==
  \A o \in Op :
    /\ ops[o].revision <= user.revision
    /\ (ops[o].revision = user.revision /\ ops[o].kind \in Request
          /\ ops[o].at \in {"mark", "stop", "handoff", "commit"}) => user.status \in Allowed(ops[o].kind)
    /\ (ops[o].revision = user.revision /\ ops[o].at = "claim") => user.status = "removal_pending"
    /\ (ops[o].revision = user.revision /\ ops[o].at = "unmark") => user.status = "enabled"

\* Whoever has written the marker finds it there as long as no other took it away.
Marked(o) == ops[o].at = "wipe" \/ (ops[o].at \in {"stop", "commit"} /\ ops[o].kind \in Shutting)
MarkerStays == ~crossed => \A o \in Op : Marked(o) => marker

\* A removal under way has the claim to itself.
Removing(o) == ops[o].kind = "maintain" /\ ops[o].at \in {"mark", "stop", "wipe", "commit"}
ClaimHeld ==
  ~doubled => /\ \A o \in Op : Removing(o) => user.status = "removing" /\ ops[o].revision = user.revision
              /\ \A o, p \in Op : Removing(o) /\ Removing(p) => o = p

\* Behind the marker and the claim, what was stopped stays off and what was deleted
\* stays away.
RemovalTakesHold ==
  ~slipped /\ ~doubled /\ ~crossed =>
    \A o \in Op : Removing(o) => /\ ops[o].at \in {"wipe", "commit"} => agent.at # "running"
                                 /\ ops[o].at = "commit" => ~data

AdminInv ==
  /\ TypeOK /\ StepsOfKinds /\ RowsRead
  /\ MarkerStays /\ ClaimHeld /\ RemovalTakesHold
  /\ ShutOutWhenNotEnabled /\ RemovedIsGone
=============================================================================
