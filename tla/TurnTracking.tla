---------------------------- MODULE TurnTracking ----------------------------
(***************************************************************************)
(* How a thread lease follows the turns of its task                        *)
(* (v2/services/thread-lease-manager.ts, interaction-broker.ts).           *)
(*                                                                         *)
(* Codex writes answers, notifications and questions to one socket, in     *)
(* order.  A notification is handled when it is read, but the caller that  *)
(* waits for an answer continues in a microtask: the frames that came with *)
(* the answer in the same chunk are handled first.  So a turn may be over  *)
(* for the lease before the caller that started it learns its id, and the  *)
(* lease keeps the end of a turn for those who asked for it.               *)
(***************************************************************************)
EXTENDS Naturals, Sequences

CONSTANTS Callers,    \* requests of pages, of the queue and of side chats
          MaxTurns,   \* bound on the turns of the task
          MaxCalls,   \* bound on the requests made
          MaxAsks,    \* bound on the questions Codex asks
          MaxFaults   \* bound on lost app-server connections

VARIABLES active,     \* Codex: the turn that runs, 0 for none
          turns,      \* Codex: how many turns were started
          wire,       \* what Codex wrote and the client has not read yet
          state,      \* ThreadLease.#state
          current,    \* ThreadLease.#currentTurnId, 0 for undefined
          terminal,   \* ThreadLease.#terminalTurns
          observers,  \* ThreadLease.#terminalObservers
          startObs,   \* ThreadLease.#turnStartResponseObservers
          timers,     \* turns with a scheduled cleanup
          entries,    \* InteractionBroker.#entries
          asked,      \* how many questions Codex asked
          call,       \* where each caller is
          draining,   \* microtasks run: no frame is read before they are done
          stale,      \* ghost: the last adopted snapshot was older than an event
          calls, lost

codex == <<active, turns, asked>>
lease == <<state, current, terminal, observers, startObs, timers, entries>>
vars == <<codex, wire, lease, call, draining, stale, calls, lost>>

Turns == 1 .. MaxTurns
Idle == [at |-> "idle", kind |-> "none", turn |-> 0, ok |-> TRUE, behind |-> FALSE]

Message(kind, c, n) == [kind |-> kind, to |-> c, n |-> n]
Nobody == "nobody"
Notice(kind, n) == Message(kind, Nobody, n)

Reads == {"read", "readTurns"}
Running == IF entries # {} THEN "waiting-input" ELSE "running"
Waiting(c) == call[c].at \in {"asked", "accepted"}
Ready == {c \in Callers : call[c].at = "ready"}

----------------------------------------------------------------------------
(* Requests.                                                               *)

\* observeTurnStartResponse before turn/start (turnStart, threadStart, the
\* queue's delivery, a side question).
AskStart(c) ==
  /\ call[c].at = "idle" /\ calls < MaxCalls /\ lost = 0
  /\ call' = [call EXCEPT ![c] = [Idle EXCEPT !.at = "asked", !.kind = "start"]]
  /\ startObs' = startObs + 1
  /\ calls' = calls + 1
  /\ UNCHANGED <<codex, wire, state, current, terminal, observers, timers, entries,
                 draining, stale, lost>>

\* observeTerminalTurn before turn/steer (#deliver) or turn/interrupt
\* (waitUntilStopped), for the turn the lease takes for the current one.
AskAboutTurn(c, kind) ==
  /\ call[c].at = "idle" /\ calls < MaxCalls /\ lost = 0
  /\ current # 0
  /\ call' = [call EXCEPT ![c] =
                [Idle EXCEPT !.at = "asked", !.kind = kind, !.turn = current]]
  /\ observers' = [observers EXCEPT ![current] = @ + 1]
  /\ calls' = calls + 1
  /\ UNCHANGED <<codex, wire, state, current, terminal, startObs, timers, entries,
                 draining, stale, lost>>

\* synchronize, with or without the turns.
AskRead(c, kind) ==
  /\ call[c].at = "idle" /\ calls < MaxCalls /\ lost = 0
  /\ call' = [call EXCEPT ![c] = [Idle EXCEPT !.at = "asked", !.kind = kind]]
  /\ calls' = calls + 1
  /\ UNCHANGED <<codex, wire, lease, draining, stale, lost>>

----------------------------------------------------------------------------
(* Codex (external).                                                       *)

Starts == <<Notice("active", turns + 1), Notice("started", turns + 1)>>

Ends == <<Notice("completed", active), Notice("idle", active)>>

Refuse(c) ==
  /\ wire' = Append(wire, Message("answer", c, 0))
  /\ call' = [call EXCEPT ![c].at = "accepted"]
  /\ UNCHANGED <<codex, lease, draining, stale, calls, lost>>

HandleStart(c) ==
  /\ call[c].at = "asked" /\ call[c].kind = "start"
  /\ \/ /\ active = 0 /\ turns < MaxTurns
        /\ active' = turns + 1 /\ turns' = turns + 1
        /\ wire' = wire \o Starts
        /\ call' = [call EXCEPT ![c].at = "accepted", ![c].turn = turns + 1]
        /\ UNCHANGED <<asked, lease, draining, stale, calls, lost>>
     \/ (active # 0 \/ turns = MaxTurns) /\ Refuse(c)

\* The answer to an accepted turn/start is written before, between or after
\* what the turn does.
AnswerStart(c) ==
  /\ call[c].at = "accepted" /\ call[c].kind = "start" /\ call[c].turn # 0
  /\ ~\E k \in 1 .. Len(wire) : wire[k].to = c
  /\ wire' = Append(wire, Message("answer", c, call[c].turn))
  /\ UNCHANGED <<codex, lease, call, draining, stale, calls, lost>>

HandleSteer(c) ==
  /\ call[c].at = "asked" /\ call[c].kind = "steer"
  /\ IF active = call[c].turn
     THEN /\ wire' = Append(wire, Message("answer", c, active))
          /\ call' = [call EXCEPT ![c].at = "accepted"]
          /\ UNCHANGED <<codex, lease, draining, stale, calls, lost>>
     ELSE Refuse(c)

HandleInterrupt(c) ==
  /\ call[c].at = "asked" /\ call[c].kind = "stop"
  /\ IF active = call[c].turn
     THEN /\ wire' = (wire \o Ends) \o <<Message("answer", c, active)>>
          /\ active' = 0
          /\ call' = [call EXCEPT ![c].at = "accepted"]
          /\ UNCHANGED <<turns, asked, lease, draining, stale, calls, lost>>
     ELSE Refuse(c)

HandleRead(c) ==
  /\ call[c].at = "asked" /\ call[c].kind \in Reads
  /\ wire' = Append(wire, Message("answer", c, active))
  /\ call' = [call EXCEPT ![c].at = "accepted"]
  /\ UNCHANGED <<codex, lease, draining, stale, calls, lost>>

\* Another client of the app-server starts a turn; a turn ends.
OtherStarts ==
  /\ active = 0 /\ turns < MaxTurns /\ lost = 0
  /\ active' = turns + 1 /\ turns' = turns + 1
  /\ wire' = wire \o Starts
  /\ UNCHANGED <<asked, lease, call, draining, stale, calls, lost>>

TurnEnds ==
  /\ active # 0 /\ lost = 0
  /\ active' = 0
  /\ wire' = wire \o Ends
  /\ UNCHANGED <<turns, asked, lease, call, draining, stale, calls, lost>>

AskUser ==
  /\ active # 0 /\ asked < MaxAsks /\ lost = 0
  /\ asked' = asked + 1
  /\ wire' = Append(wire, Notice("ask", asked + 1))
  /\ UNCHANGED <<active, turns, lease, call, draining, stale, calls, lost>>

----------------------------------------------------------------------------
(* Frames.                                                                 *)

MutRetained(t) == observers[t] > 0

\* turn/completed is kept while somebody waits for a start or for this turn.
Retained(t) == startObs > 0 \/ observers[t] > 0

\* #updateState: the state, the current turn and the turns kept afterwards.
UpdateState(m) ==
  CASE m.kind = "started" ->
         state' = "running" /\ current' = m.n /\ UNCHANGED terminal
    [] m.kind = "completed" ->
         /\ state' = IF entries # {} THEN "waiting-input" ELSE "idle"
         /\ current' = IF current = m.n THEN 0 ELSE current
         /\ terminal' = IF Retained(m.n)
              THEN [terminal EXCEPT ![m.n] = IF startObs > 0 THEN "pending" ELSE "kept"]
              ELSE terminal
    [] m.kind = "active" -> state' = "running" /\ UNCHANGED <<current, terminal>>
    [] m.kind = "idle" -> state' = "idle" /\ UNCHANGED <<current, terminal>>
    [] m.kind = "ask" -> state' = "waiting-input" /\ UNCHANGED <<current, terminal>>
    [] OTHER -> UNCHANGED <<state, current, terminal>>

\* What the callers see of a frame: the answer readies its caller, the end of
\* a turn is an event for those who subscribed, and every event makes a
\* snapshot that was read before it old.
Seen(c, m) ==
  CASE m.to = c -> [call[c] EXCEPT !.at = "ready", !.ok = call[c].kind \in Reads \/ m.n # 0,
                                   !.turn = IF call[c].kind \in Reads THEN m.n ELSE @]
    [] call[c].at \in {"watching", "stopping"} /\ m.kind = "completed"
         /\ call[c].turn = m.n -> [call[c] EXCEPT !.at = "heard"]
    [] call[c].at = "ready" /\ m.to = Nobody /\ m.kind # "ask" ->
         [call[c] EXCEPT !.behind = TRUE]
    [] OTHER -> call[c]

\* CodexAppServerClient.#handleMessage, ThreadLease.#notification and
\* #serverRequest with InteractionBroker.add.
Read ==
  /\ wire # <<>> /\ ~draining /\ lost = 0
  /\ wire' = Tail(wire)
  /\ LET m == Head(wire) IN
     /\ UpdateState(m)
     /\ entries' = IF m.kind = "ask" THEN entries \cup {m.n} ELSE entries
     /\ call' = [c \in Callers |-> Seen(c, m)]
     /\ stale' = (stale /\ m.kind # "started")
  /\ UNCHANGED <<codex, observers, startObs, timers, draining, calls, lost>>

\* InteractionBroker.respond: one device answers, and Codex goes on.
Respond ==
  /\ lost = 0 /\ ~draining
  /\ \E q \in entries :
       /\ entries' = entries \ {q}
       /\ state' = IF entries' = {} /\ state = "waiting-input" THEN "running" ELSE state
  /\ UNCHANGED <<codex, wire, current, terminal, observers, startObs, timers, call,
                 draining, stale, calls, lost>>

----------------------------------------------------------------------------
(* Continuations.                                                          *)

\* #scheduleTerminalTurnCleanup applies to a turn that nobody waits for.
MayForget(kept, obs, t) == kept[t] = "kept" /\ obs[t] = 0

\* The timers after turns ts were handed to #scheduleTerminalTurnCleanup.
Scheduled(kept, obs, ts) == timers \cup {t \in ts : MayForget(kept, obs, t)}

MutStopObserving(kept) == kept

\* What is kept when the observation of one turn/start ends.
StopObserving(kept) ==
  IF startObs > 1 THEN kept
  ELSE [t \in Turns |-> IF kept[t] = "pending" THEN "kept" ELSE kept[t]]

Drains(c) == draining' = (Ready \ {c} # {})

\* The turn/start failed.
StartFailed(c) ==
  /\ c \in Ready /\ call[c].kind = "start" /\ ~call[c].ok
  /\ startObs' = startObs - 1
  /\ terminal' = StopObserving(terminal)
  /\ timers' = Scheduled(terminal', observers, IF startObs = 1 THEN Turns ELSE {})
  /\ call' = [call EXCEPT ![c] = Idle]
  /\ Drains(c)
  /\ UNCHANGED <<codex, wire, state, current, observers, entries, stale, calls, lost>>

MutNoted(t) == FALSE

\* noteTurnStarted finds that the turn is over.
Noted(t) == terminal[t] # "none"

\* The turn/start succeeded: noteTurnStarted, AutoTitleService.schedule, and
\* the end of the observation.
Started(c) ==
  LET t == call[c].turn IN
  /\ c \in Ready /\ call[c].kind = "start" /\ call[c].ok
  /\ IF Noted(t) THEN UNCHANGED <<state, current>>
     ELSE state' = Running /\ current' = t
  /\ startObs' = startObs - 1
  /\ terminal' = StopObserving(IF Noted(t) THEN [terminal EXCEPT ![t] = "kept"]
                                ELSE terminal)
  /\ timers' = Scheduled(terminal', observers,
                         IF startObs = 1 THEN Turns ELSE {t})
  /\ call' = [call EXCEPT ![c].at = IF terminal[t] # "none" THEN "heard" ELSE "watching"]
  /\ Drains(c)
  /\ UNCHANGED <<codex, wire, observers, entries, stale, calls, lost>>

\* The observation of one turn ends.
Unobserved(t) == [observers EXCEPT ![t] = @ - 1]

\* A steered turn gets a title like a started one; a refused steer does not.
Steered(c) ==
  LET t == call[c].turn IN
  /\ c \in Ready /\ call[c].kind = "steer" /\ call[c].ok
  /\ observers' = Unobserved(t)
  /\ timers' = Scheduled(terminal, observers', {t})
  /\ call' = [call EXCEPT ![c].at = IF terminal[t] # "none" THEN "heard" ELSE "watching"]
  /\ Drains(c)
  /\ UNCHANGED <<codex, wire, state, current, terminal, startObs, entries, stale,
                 calls, lost>>

\* An interrupted turn is waited for until its end was seen.
Interrupted(c) ==
  LET t == call[c].turn IN
  /\ c \in Ready /\ call[c].kind = "stop" /\ call[c].ok
  /\ call' = [call EXCEPT ![c].at = IF terminal[t] # "none" THEN "heard" ELSE "stopping"]
  /\ Drains(c)
  /\ UNCHANGED <<codex, wire, lease, stale, calls, lost>>

\* A steer or an interrupt was refused.
Refused(c) ==
  /\ c \in Ready /\ call[c].kind \in {"steer", "stop"} /\ ~call[c].ok
  /\ observers' = Unobserved(call[c].turn)
  /\ timers' = Scheduled(terminal, observers', {call[c].turn})
  /\ call' = [call EXCEPT ![c] = Idle]
  /\ Drains(c)
  /\ UNCHANGED <<codex, wire, state, current, terminal, startObs, entries, stale,
                 calls, lost>>

\* adoptAuthoritativeThread.
Adopt(c) ==
  /\ c \in Ready /\ call[c].kind \in Reads /\ call[c].ok
  /\ state' = IF call[c].turn # 0 THEN Running ELSE "idle"
  /\ current' = IF call[c].kind = "readTurns" THEN call[c].turn ELSE 0
  /\ stale' = call[c].behind
  /\ call' = [call EXCEPT ![c] = Idle]
  /\ Drains(c)
  /\ UNCHANGED <<codex, wire, terminal, observers, startObs, timers, entries, calls, lost>>

ReadFailed(c) ==
  /\ c \in Ready /\ call[c].kind \in Reads /\ ~call[c].ok
  /\ call' = [call EXCEPT ![c] = Idle]
  /\ Drains(c)
  /\ UNCHANGED <<codex, wire, lease, stale, calls, lost>>

\* The timer of #scheduleTerminalTurnCleanup.
Cleanup(t) ==
  /\ t \in timers /\ Ready = {} /\ lost = 0
  /\ timers' = timers \ {t}
  /\ terminal' = IF MayForget(terminal, observers, t)
                 THEN [terminal EXCEPT ![t] = "none"] ELSE terminal
  /\ UNCHANGED <<codex, wire, state, current, observers, startObs, entries, call,
                 draining, stale, calls, lost>>

\* The one who heard the end of the turn is done, and the wait for an
\* interrupted turn releases its observation.
Finished(c) ==
  /\ call[c].at = "heard"
  /\ call' = [call EXCEPT ![c] = Idle]
  /\ IF call[c].kind = "stop"
     THEN /\ observers' = Unobserved(call[c].turn)
          /\ timers' = Scheduled(terminal, observers', {call[c].turn})
     ELSE UNCHANGED <<observers, timers>>
  /\ UNCHANGED <<codex, wire, state, current, terminal, startObs, entries, draining,
                 stale, calls, lost>>

\* #clientClosed with failAll; the pending requests are rejected.
ClientClosed ==
  /\ lost < MaxFaults
  /\ lost' = lost + 1
  /\ state' = "failed" /\ entries' = {} /\ wire' = <<>>
  /\ call' = [c \in Callers |-> IF Waiting(c)
                THEN [call[c] EXCEPT !.at = "ready", !.ok = FALSE] ELSE call[c]]
  /\ draining' = FALSE
  /\ UNCHANGED <<codex, current, terminal, observers, startObs, timers, stale, calls>>

----------------------------------------------------------------------------
Init ==
  /\ active = 0 /\ turns = 0 /\ wire = <<>> /\ asked = 0
  /\ state = "idle" /\ current = 0
  /\ terminal = [t \in Turns |-> "none"] /\ observers = [t \in Turns |-> 0]
  /\ startObs = 0 /\ timers = {} /\ entries = {}
  /\ call = [c \in Callers |-> Idle]
  /\ draining = FALSE /\ stale = FALSE /\ calls = 0 /\ lost = 0

CallerNext(c) ==
  \/ AskStart(c)
  \/ \E kind \in {"steer", "stop"} : AskAboutTurn(c, kind)
  \/ \E kind \in Reads : AskRead(c, kind)
  \/ HandleStart(c) \/ AnswerStart(c) \/ HandleSteer(c) \/ HandleInterrupt(c)
  \/ HandleRead(c)
  \/ Started(c) \/ StartFailed(c) \/ Steered(c) \/ Interrupted(c) \/ Refused(c)
  \/ Adopt(c) \/ ReadFailed(c) \/ Finished(c)

Next ==
  \/ \E c \in Callers : CallerNext(c)
  \/ OtherStarts \/ TurnEnds \/ AskUser
  \/ Read \/ Respond
  \/ \E t \in Turns : Cleanup(t)
  \/ ClientClosed

Spec == Init /\ [][Next]_vars

----------------------------------------------------------------------------
(* Properties.                                                             *)

Quiet == wire = <<>> /\ Ready = {} /\ lost = 0 /\ \A c \in Callers : ~Waiting(c)

\* When everything Codex wrote has been handled nobody still waits for the end
\* of a turn that is over, in whatever order the end, the answer to the request
\* that started, steered or interrupted the turn and the timers came
\* (noteTurnStarted, observeTerminalTurn, observeTurnStartResponse).
EndIsHeard ==
  Quiet => \A c \in Callers :
             call[c].at \in {"watching", "stopping"} => call[c].turn = active

\* When everything has been handled the lease shows what Codex does: it is
\* idle when no turn runs, runs while one does, and waits for the user only when
\* a question is open, and a late answer to turn/start does not make a finished turn run
\* again.  The one exception is a snapshot of thread/read that was adopted after
\* a later event (adoptAuthoritativeThread compares neither).
AgreesWithCodex ==
  Quiet /\ ~stale =>
    /\ state \in IF active = 0 THEN {"idle"} ELSE {"running", Running}
    /\ current \in {0, active}

\* The ends of turns are not collected: when nobody waits and the timers have
\* run, none is kept.
NothingRetained ==
  (Quiet /\ timers = {} /\ startObs = 0 /\ \A t \in Turns : observers[t] = 0)
     => \A t \in Turns : terminal[t] = "none"

\* "Never regress that authoritative terminal notification": without exception.
NeverRegresses == Quiet => (active = 0 => state # "running")
=============================================================================
