------------------------------ MODULE Scenario ------------------------------
(***************************************************************************)
(* ScenarioGateway, the Host without a model that the page runs against in *)
(* its demonstrations and browser tests: it keeps the state of a Host in   *)
(* memory, answers every method of the gateway, holds the status of every  *)
(* durable operation, and plays the turns with timers.  A request's        *)
(* dispatch runs in one piece; what it leaves to a timer, and the status   *)
(* that is written after its await, come later and in between.             *)
(*                                                                         *)
(* Identifiers are drawn from a counter, so that none is drawn twice. What *)
(* a request only reads and answers is left out, and so are the events:    *)
(* they tell the page what has just been written.                          *)
(***************************************************************************)
EXTENDS Naturals, Sequences, FiniteSets, SequencesExt

CONSTANTS Names,     \* user names the administrator manages
          Scenes     \* what a behaviour is about: [methods, options, requests]

VARIABLES scene,         \* one of Scenes
          once,          \* the options still to be played, and the failures they armed
          mutations,     \* #mutationStatuses, by operation key: its number
          told,          \* what was answered under a key
          workspaces,    \* id |-> isDefault
          threads,       \* id |-> [workspace, state, archived, items]
          settings,      \* #threadSettings: id |-> revision
          usage,         \* #threadContextUsage: id |-> completed turns it counts
          sides,         \* parent |-> [status, thread]
          interactions,  \* #interactions: id |-> thread
          turnOf,        \* #interactionTurns: id |-> [thread, turn]
          queue,         \* id |-> [thread, status, revision]
          preferences,   \* the revision of the preferences
          users,         \* name |-> [uid, status, removeAfter, revision]
          audit,         \* Seq([action, name]), the newest first
          setup,         \* network, sign-in and runtime switch
          due,           \* the turns whose 250 ms are running, in their order
          short,         \* the other timers: kind |-> how many are running
          reads,         \* #unmatchedWorkspaceReads, #codexVersionReads, #missingParents
          drawn,         \* identifiers drawn
          requests,      \* requests made (bound: scene.requests)
          closed         \* the scope is closed

host == <<workspaces, threads, settings, usage, sides, interactions, turnOf, queue,
          preferences, users, audit, setup, due, short>>
call == <<scene, once, mutations, told, reads, drawn, requests, closed>>
vars == <<host, call>>

Gone == 0          \* an id that is not, or no longer, in use
Demo == 1          \* workspace-demo
Welcome == 2       \* thread-welcome
Long == 3          \* thread-long-conversation, its turns numbered from 4

TimerKinds == {"login", "reset", "disarm", "change", "read"}

Without(f, S) == Restrict(f, DOMAIN f \ S)
Put(f, i, v) == [x \in DOMAIN f \cup {i} |-> IF x = i THEN v ELSE f[x]]

Thread(w, state, items) ==
    [workspace |-> w, state |-> state, archived |-> FALSE, items |-> items]
Item(turn, kind) == [turn |-> turn, kind |-> kind]

(* longConversationThread: turns of a request and an answer, with the records of tools
   before the last answer and after it. *)
LongItems ==
    <<Item(4, "user"), Item(4, "assistant"), Item(5, "user"), Item(5, "tool"),
      Item(5, "assistant"), Item(5, "tool")>>
FirstThreads(options) ==
    LET welcome == [t \in {Welcome} |-> Thread(Demo, "idle", <<Item(Gone, "assistant")>>)]
    IN  IF "longConversation" \in options THEN Put(welcome, Long, Thread(Demo, "idle", LongItems))
        ELSE welcome
Start(kind) == short' = [short EXCEPT ![kind] = @ + 1]

Init ==
    /\ scene \in Scenes
    /\ once = scene.options
    /\ mutations = << >> /\ told = {}
    /\ workspaces = [w \in {Demo} |-> TRUE]
    /\ threads = FirstThreads(scene.options)
    /\ settings = [t \in DOMAIN threads |-> 0]
    /\ usage = [t \in {Welcome} |-> 1]
    /\ sides = << >> /\ interactions = << >> /\ turnOf = << >> /\ queue = << >>
    /\ preferences = 0
    /\ users = << >> /\ audit = << >>
    /\ setup = [network |-> "direct", signedIn |-> TRUE,
                switch |-> "runtimeSwitchRequired" \in scene.options]
    /\ due = << >> /\ short = [k \in TimerKinds |-> 0]
    /\ reads = [workspace |-> 0, version |-> 0, missing |-> {}]
    /\ drawn = 5 /\ requests = 0 /\ closed = FALSE

-----------------------------------------------------------------------------
(***************************************************************************)
(* request                                                                 *)
(***************************************************************************)
(* A call that the scene allows reaches its dispatch. *)
Call(m) ==
    /\ ~closed /\ m \in scene.methods /\ requests < scene.requests
    /\ requests' = requests + 1
    /\ UNCHANGED <<scene, closed>>

(* A query, or a mutation without a status. *)
Plain(m) == Call(m) /\ UNCHANGED <<mutations, told>>

(* A durable mutation under a new key: its status is pending until the dispatch has been
   awaited. What the dispatch came to is what the status will say. *)
Durable(m, outcome) ==
    /\ Call(m)
    /\ mutations' = Append(mutations, [status |-> "pending", method |-> m, outcome |-> outcome])
    /\ UNCHANGED told

(* After the await: the status is completed, and the caller has its answer. *)
Settle(k) ==
    /\ mutations[k].status = "pending"
    /\ mutations' = [mutations EXCEPT ![k].status = "completed"]
    /\ told' = told \cup {[key |-> k, says |-> mutations[k].outcome]}
    /\ UNCHANGED <<host, scene, once, reads, drawn, requests, closed>>

(* The same key again: the stored outcome, or an error that changes nothing. *)
Replay(k, m) ==
    /\ Call("mutation/status")
    /\ told' = told \cup {[key |-> k, says |->
                 IF mutations[k].method # m THEN "another method"
                 ELSE IF mutations[k].status = "pending" THEN "pending"
                 ELSE mutations[k].outcome]}
    /\ UNCHANGED <<host, once, mutations, reads, drawn>>

(* A dispatch that throws and leaves all as it was: what it names is gone or has another
   revision, a workspace owns tasks, or a side chat has changed. *)
Throws == {"workspace/remove", "side/start", "side/abandon", "thread/start",
           "thread/archive", "thread/delete", "thread/settings/update", "turn/start",
           "interaction/respond", "queue/remove", "queue/steer",
           "queue/indeterminate/acknowledge", "preferences/update", "admin/user/disable"}
Refuse(m) ==
    /\ Durable(m, "error")
    /\ UNCHANGED <<host, once, reads, drawn>>

Close ==
    /\ "close" \in scene.methods /\ ~closed /\ closed' = TRUE
    /\ due' = << >> /\ short' = [k \in TimerKinds |-> 0]
    /\ UNCHANGED <<scene, once, mutations, told, workspaces, threads, settings, usage, sides,
                   interactions, turnOf, queue, preferences, users, audit, setup, reads,
                   drawn, requests>>

(* A timer's turn of the event loop comes after the dispatches that were awaited. *)
NoneAwaited == \A k \in DOMAIN mutations : mutations[k].status = "completed"

-----------------------------------------------------------------------------
(***************************************************************************)
(* Threads, turns and interactions                                         *)
(***************************************************************************)
others == <<workspaces, sides, queue, preferences, users, audit, setup, short>>

SetThreadState(t, state) == [threads EXCEPT ![t].state = state]

(* What the prompt asks for: a question first, a failure, or an answer. *)
Play(t, turn, prompt, ts) ==
    IF prompt = "question"
    THEN /\ threads' = [ts EXCEPT ![t].state = "waiting-input"]
         /\ interactions' = Put(interactions, turn + 1, t)
         /\ turnOf' = Put(turnOf, turn + 1, [thread |-> t, turn |-> turn])
         /\ drawn' = turn + 1
         /\ UNCHANGED due
    ELSE /\ threads' = ts
         /\ due' = Append(due, [at |-> prompt, thread |-> t, turn |-> turn])
         /\ drawn' = turn
         /\ UNCHANGED <<interactions, turnOf>>

Prompts == {"question", "fail", "complete"}

StartThread(w, prompt) ==
    /\ Durable("thread/start", "success")
    /\ LET t == drawn + 1
           turn == drawn + 2
       IN  /\ Play(t, turn, prompt,
                   Put(threads, t, Thread(w, "running", <<Item(turn, "user")>>)))
           /\ settings' = Put(settings, t, 0)
    /\ UNCHANGED <<others, usage, once, reads>>

StartTurn(t, prompt) ==
    /\ Durable("turn/start", "success")
    /\ t \in DOMAIN threads
    /\ LET turn == drawn + 1
           asked == [threads EXCEPT ![t].items = Append(@, Item(turn, "user"))]
       IN  Play(t, turn, prompt, [asked EXCEPT ![t].state = "running"])
    /\ UNCHANGED <<others, settings, usage, once, reads>>

(* completeScenarioTurn and failScenarioTurn, 250 ms later: nothing, if the task is gone. *)
TurnEnds ==
    /\ NoneAwaited /\ due # << >>
    /\ due' = Tail(due)
    /\ LET d == Head(due)
           said == [threads EXCEPT ![d.thread].items =
                      Append(@, Item(d.turn, IF d.at = "fail" THEN "error" ELSE "assistant"))]
       IN  IF d.thread \notin DOMAIN threads
           THEN UNCHANGED <<threads, usage>>
           ELSE /\ threads' = [said EXCEPT ![d.thread].state =
                                   IF d.at = "fail" THEN "failed" ELSE "idle"]
                /\ usage' = IF d.at = "fail" THEN usage
                            ELSE Put(usage, d.thread,
                                     1 + (IF d.thread \in DOMAIN usage THEN usage[d.thread] ELSE 0))
    /\ UNCHANGED <<others, settings, interactions, turnOf, call>>

InteractionsOf(t) == {i \in DOMAIN interactions : interactions[i] = t}

(* turn/interrupt: the questions of the task are dropped; its timers run on. *)
Interrupt(t) ==
    /\ Plain("turn/interrupt")
    /\ t \in DOMAIN threads
    /\ interactions' = Without(interactions, InteractionsOf(t))
    /\ turnOf' = Without(turnOf, InteractionsOf(t))
    /\ threads' = SetThreadState(t, "idle")
    /\ UNCHANGED <<others, settings, usage, due, once, reads, drawn>>

\* A bug: the question stays, and can be answered once more.
RespondKeepsQuestion(i) ==
    /\ Durable("interaction/respond", "success")
    /\ i \in DOMAIN interactions
    /\ threads' = SetThreadState(turnOf[i].thread, "running")
    /\ due' = Append(due, [at |-> "complete", thread |-> turnOf[i].thread, turn |-> turnOf[i].turn])
    /\ UNCHANGED <<others, settings, usage, interactions, turnOf, once, reads, drawn>>

Respond(i) ==
    /\ Durable("interaction/respond", "success")
    /\ i \in DOMAIN interactions
    /\ interactions' = Without(interactions, {i})
    /\ turnOf' = Without(turnOf, {i})
    /\ IF i \in DOMAIN turnOf
       THEN /\ threads' = SetThreadState(turnOf[i].thread, "running")
            /\ due' = Append(due, [at |-> "complete", thread |-> turnOf[i].thread,
                                   turn |-> turnOf[i].turn])
       ELSE UNCHANGED <<threads, due>>
    /\ UNCHANGED <<others, settings, usage, once, reads, drawn>>

(* deleteThread: nothing of it stays but the timers of its turns and its side chat. *)
DeleteThread(t) ==
    /\ threads' = Without(threads, {t})
    /\ settings' = Without(settings, {t})
    /\ usage' = Without(usage, {t})
    /\ interactions' = Without(interactions, InteractionsOf(t))
    /\ turnOf' = Without(turnOf, InteractionsOf(t))
    /\ queue' = Without(queue, {q \in DOMAIN queue : queue[q].thread = t})

Delete(t) ==
    /\ Durable("thread/delete", "success")
    /\ t \in DOMAIN threads
    /\ DeleteThread(t)
    /\ UNCHANGED <<workspaces, sides, preferences, users, audit, setup, short, due, once,
                   reads, drawn>>

threadRest == <<others, usage, interactions, turnOf, due, reads, drawn>>

(* The option is played even when the task is gone. *)
Rename(t) ==
    /\ Durable("thread/rename", IF t \in DOMAIN threads THEN "success" ELSE "error")
    /\ once' = IF "failThreadListAfterRenameOnce" \in once
               THEN (once \ {"failThreadListAfterRenameOnce"}) \cup {"threadListFailure"}
               ELSE once
    /\ UNCHANGED <<host, reads, drawn>>

ListThreads ==
    /\ Plain("thread/list")
    /\ once' = once \ {"threadListFailure"}
    /\ UNCHANGED <<host, reads, drawn>>

Archive(t, archived) ==
    /\ Durable("thread/archive", "success")
    /\ t \in DOMAIN threads
    /\ threads' = [threads EXCEPT ![t].archived = archived]
    /\ UNCHANGED <<threadRest, settings, once>>

(* The option first lets another device change the settings, and refuses. *)
UpdateSettings(t) ==
    /\ t \in DOMAIN threads
    /\ settings' = Put(settings, t, 1 + (IF t \in DOMAIN settings THEN settings[t] ELSE 0))
    /\ IF "threadSettingsConflictOnce" \in once
       THEN /\ Durable("thread/settings/update", "error")
            /\ once' = once \ {"threadSettingsConflictOnce"}
       ELSE Durable("thread/settings/update", "success") /\ UNCHANGED once
    /\ UNCHANGED <<threadRest, threads>>

(* scenarioHistoryPage: where the page that ends before item `end` starts, when it may
   hold so many turns. A turn that was interrupted by another counts again. *)
PageStart(items, end, turns) ==
    LET Begins(n) == n = end \/ items[n].turn # items[n + 1].turn
        Turns(start) == Cardinality({n \in start + 1 .. end : Begins(n)})
    IN  CHOOSE start \in 0 .. end :
          /\ Turns(start) <= turns
          /\ start > 0 => Turns(start - 1) > turns

(* thread/open with the option, while the task has a side chat: its parent is gone for
   good, for this request and every later one. *)
Open(t) ==
    /\ Plain("thread/open")
    /\ reads' = IF "failParentOpenWithSide" \in once /\ t \in DOMAIN sides
                THEN [reads EXCEPT !.missing = @ \cup {t}] ELSE reads
    /\ UNCHANGED <<host, once, drawn>>

-----------------------------------------------------------------------------
(***************************************************************************)
(* Side chats                                                              *)
(***************************************************************************)
sideRest == <<workspaces, preferences, users, audit, setup, short, due, reads>>

StartSide(p) ==
    /\ Durable("side/start", "success")
    /\ p \in DOMAIN threads
    /\ \/ /\ p \in DOMAIN sides
          /\ UNCHANGED <<threads, settings, sides, once, drawn>>
       \/ /\ p \notin DOMAIN sides /\ "childlessSideOnce" \in once
          /\ once' = once \ {"childlessSideOnce"}
          /\ sides' = Put(sides, p, [status |-> "indeterminate", thread |-> Gone])
          /\ drawn' = drawn + 1
          /\ UNCHANGED <<threads, settings>>
       \/ /\ p \notin DOMAIN sides /\ "childlessSideOnce" \notin once
          /\ drawn' = drawn + 1
          /\ threads' = Put(threads, drawn + 1, Thread(threads[p].workspace, "idle", << >>))
          /\ settings' = Put(settings, drawn + 1, 0)
          /\ sides' = Put(sides, p, [status |-> "ready", thread |-> drawn + 1])
          /\ UNCHANGED once
    /\ UNCHANGED <<sideRest, usage, interactions, turnOf, queue>>

(* side/abandon: only a creation whose outcome is unknown, or nothing at all. *)
AbandonSide(p) ==
    /\ Durable("side/abandon", "success")
    /\ p \in DOMAIN sides => sides[p].status = "indeterminate"
    /\ sides' = Without(sides, {p})
    /\ UNCHANGED <<sideRest, threads, settings, usage, interactions, turnOf, queue, once, drawn>>

(* side/delete: the thread first; when that was deleted before, this throws, and the side
   chat stays. *)
DeleteSide(p) ==
    /\ p \in DOMAIN threads \cup DOMAIN sides
    /\ IF p \in DOMAIN sides /\ sides[p].thread # Gone
       THEN IF sides[p].thread \in DOMAIN threads
            THEN /\ Durable("side/delete", "success")
                 /\ DeleteThread(sides[p].thread)
                 /\ sides' = Without(sides, {p})
            ELSE /\ Durable("side/delete", "error")
                 /\ UNCHANGED <<threads, settings, usage, interactions, turnOf, queue, sides>>
       ELSE /\ Durable("side/delete", "success")
            /\ sides' = Without(sides, {p})
            /\ UNCHANGED <<threads, settings, usage, interactions, turnOf, queue>>
    /\ UNCHANGED <<sideRest, once, drawn>>

-----------------------------------------------------------------------------
(***************************************************************************)
(* Workspaces and preferences                                              *)
(***************************************************************************)
tasks == <<threads, settings, usage, sides, interactions, turnOf, due>>
workspaceRest == <<tasks, queue, preferences, users, audit, setup>>

(* After a change of the list, the next read of it fails once. *)
ArmListFailure ==
    once' = IF "failWorkspaceListAfterMutationOnce" \in once
            THEN (once \ {"failWorkspaceListAfterMutationOnce"}) \cup {"workspaceListFailure"}
            ELSE once

AddWorkspace ==
    /\ Durable("workspace/add", "success")
    /\ drawn' = drawn + 1
    /\ workspaces' = Put(workspaces, drawn + 1, workspaces = << >>)
    /\ ArmListFailure
    /\ UNCHANGED <<workspaceRest, short, reads>>

RemoveWorkspace(w) ==
    /\ Durable("workspace/remove", "success")
    /\ w \in DOMAIN workspaces
    /\ \A t \in DOMAIN threads : threads[t].workspace # w
    /\ workspaces' = Without(workspaces, {w})
    /\ ArmListFailure
    /\ UNCHANGED <<workspaceRest, short, reads, drawn>>

(* Whether or not there is a workspace with that id. *)
UpdateDefault(w) ==
    /\ Durable("workspace/default/update", "success")
    /\ workspaces' = [x \in DOMAIN workspaces |-> x = w]
    /\ ArmListFailure
    /\ UNCHANGED <<workspaceRest, short, reads, drawn>>

(* A read of the list is one that a read of the preferences may follow in the same turn of
   the event loop: a timer of 0 ms forgets it. *)
ListWorkspaces ==
    /\ Plain("workspace/list")
    /\ IF "workspaceListFailure" \in once
       THEN once' = once \ {"workspaceListFailure"} /\ UNCHANGED <<reads, short>>
       ELSE /\ reads' = [reads EXCEPT !.workspace = @ + 1]
            /\ IF short["reset"] = 0 THEN Start("reset") ELSE UNCHANGED short
            /\ UNCHANGED once
    /\ UNCHANGED <<workspaces, workspaceRest, drawn>>

(* The end of a read: another device may change the preferences right after the first. *)
Answered(left) ==
    IF "changePreferencesAfterInitialRead" \in left
    THEN once' = left \ {"changePreferencesAfterInitialRead"} /\ Start("change")
    ELSE once' = left /\ UNCHANGED short

ReadPreferences ==
    /\ Plain("preferences/read")
    /\ LET ofTasks == reads.workspace > 0
       IN  /\ reads' = [reads EXCEPT !.workspace = IF ofTasks THEN @ - 1 ELSE @]
           /\ IF "failFirstPreferencesReadOnce" \in once /\ ofTasks
              THEN /\ IF short["disarm"] = 0 THEN Start("disarm") ELSE UNCHANGED short
                   /\ UNCHANGED once
              ELSE IF "preferencesReadFailure" \in once
              THEN once' = once \ {"preferencesReadFailure"} /\ UNCHANGED short
              ELSE IF "delaySecondPreferencesReadOnce" \in once /\ ~ofTasks
              THEN once' = once \ {"delaySecondPreferencesReadOnce"} /\ Start("read")
              ELSE Answered(once)
    /\ UNCHANGED <<workspaces, workspaceRest, drawn>>

(* What another device would have written, or is about to, comes first. *)
UpdatePreferences ==
    /\ preferences' = preferences + 1
    /\ IF "preferencesAlreadyAppliedConflictOnce" \in once
       THEN /\ Durable("preferences/update", "error")
            /\ once' = once \ {"preferencesAlreadyAppliedConflictOnce"}
       ELSE IF "preferencesConflictRefreshFailureOnce" \in once
       THEN /\ Durable("preferences/update", "error")
            /\ once' = (once \ {"preferencesConflictRefreshFailureOnce"})
                         \cup {"preferencesReadFailure"}
       ELSE Durable("preferences/update", "success") /\ UNCHANGED once
    /\ UNCHANGED <<workspaces, tasks, queue, users, audit, setup, short, reads, drawn>>

-----------------------------------------------------------------------------
(***************************************************************************)
(* The queue                                                               *)
(***************************************************************************)
queueRest == <<workspaces, tasks, preferences, users, audit, setup, short, once, reads>>

(* For any thread id: nobody looks whether there is such a task. *)
AddToQueue(t) ==
    /\ Durable("queue/add", "success")
    /\ drawn' = drawn + 1
    /\ queue' = Put(queue, drawn + 1, [thread |-> t, status |-> "pending", revision |-> 1])
    /\ UNCHANGED queueRest

RemoveFromQueue(q) ==
    /\ Durable("queue/remove", "success")
    /\ q \in DOMAIN queue
    /\ queue' = Without(queue, {q})
    /\ UNCHANGED <<queueRest, drawn>>

Steer(q) ==
    /\ Durable("queue/steer", "success")
    /\ q \in DOMAIN queue
    /\ queue' = [queue EXCEPT ![q].revision = @ + 1]
    /\ UNCHANGED <<queueRest, drawn>>

Acknowledge(q, disposition) ==
    /\ Durable("queue/indeterminate/acknowledge", "success")
    /\ q \in DOMAIN queue
    /\ queue' = [queue EXCEPT ![q] =
                   [thread |-> @.thread, revision |-> @.revision + 1,
                    status |-> IF disposition = "retry" THEN "pending" ELSE "completed"]]
    /\ UNCHANGED <<queueRest, drawn>>

-----------------------------------------------------------------------------
(***************************************************************************)
(* Setup, and the short timers                                             *)
(***************************************************************************)
setupRest == <<workspaces, tasks, queue, preferences, users, audit, drawn>>

(* Codex is installed from the start, and nothing removes it: an installation's timer
   changes nothing. *)
ConfigureNetwork(mode) ==
    /\ Durable("setup/network/configure", "success")
    /\ setup' = [setup EXCEPT !.network = mode]
    /\ UNCHANGED <<setupRest, short, once, reads>>

ReadVersion ==
    /\ Plain("setup/codex/version")
    /\ reads' = [reads EXCEPT !.version = @ + 1]
    /\ once' = IF reads.version = 1 THEN once \ {"failSecondCodexVersionReadOnce"} ELSE once
    /\ UNCHANGED <<setupRest, setup, short>>

(* The sign-in is completed 50 ms later, cancelled or not. *)
StartLogin ==
    /\ Plain("setup/codex/login/start")
    /\ Start("login")
    /\ UNCHANGED <<setupRest, setup, once, reads>>

Logout ==
    /\ Durable("setup/codex/logout", "success")
    /\ setup' = [setup EXCEPT !.signedIn = FALSE]
    /\ UNCHANGED <<setupRest, short, once, reads>>

RestartAppServer ==
    /\ Plain("setup/app-server/restart")
    /\ setup' = [setup EXCEPT !.switch = FALSE]
    /\ UNCHANGED <<setupRest, short, once, reads>>

Fires(kind) ==
    /\ NoneAwaited /\ short[kind] > 0
    /\ UNCHANGED <<workspaces, tasks, queue, users, audit, scene, mutations, told, drawn,
                   requests, closed>>

Fired(kind) == short' = [short EXCEPT ![kind] = @ - 1]

LoginTimer ==
    /\ Fires("login") /\ Fired("login")
    /\ setup' = [setup EXCEPT !.signedIn = TRUE]
    /\ UNCHANGED <<preferences, once, reads>>

ResetTimer ==
    /\ Fires("reset") /\ Fired("reset")
    /\ reads' = [reads EXCEPT !.workspace = 0]
    /\ UNCHANGED <<preferences, setup, once>>

DisarmTimer ==
    /\ Fires("disarm") /\ Fired("disarm")
    /\ once' = once \ {"failFirstPreferencesReadOnce"}
    /\ UNCHANGED <<preferences, setup, reads>>

ChangeTimer ==
    /\ Fires("change") /\ Fired("change")
    /\ preferences' = preferences + 1
    /\ UNCHANGED <<setup, once, reads>>

(* The delayed read answers with what the preferences are by now. *)
ReadTimer ==
    /\ Fires("read")
    /\ once' = once \ {"changePreferencesAfterInitialRead"}
    /\ short' = [k \in TimerKinds |->
                   IF k = "read" THEN short[k] - 1
                   ELSE IF k = "change" /\ "changePreferencesAfterInitialRead" \in once
                   THEN short[k] + 1 ELSE short[k]]
    /\ UNCHANGED <<preferences, setup, reads>>

-----------------------------------------------------------------------------
(***************************************************************************)
(* The administrator's methods                                             *)
(***************************************************************************)
adminRest == <<workspaces, tasks, queue, preferences, setup, short, once, reads, drawn>>

AppendAudit(action, n) == audit' = <<[action |-> action, name |-> n]>> \o audit

Register(n) ==
    /\ Durable("admin/user/register", "success")
    /\ IF n \in DOMAIN users
       THEN UNCHANGED <<users, audit>>
       ELSE /\ users' = Put(users, n, [uid |-> 10000 + Cardinality(DOMAIN users),
                                       status |-> "enabled", removeAfter |-> FALSE, revision |-> 1])
            /\ AppendAudit("register", n)
    /\ UNCHANGED adminRest

(* updateAdminUser, with the revision the user has: a removal brings its date, and every
   other status drops it. *)
UpdateUser(n, status) ==
    /\ Durable("admin/user/disable", "success")
    /\ n \in DOMAIN users
    /\ users' = [users EXCEPT ![n] =
                   [uid |-> @.uid, revision |-> @.revision + 1, status |-> status,
                    removeAfter |-> status = "removal_pending"]]
    /\ AppendAudit(status, n)
    /\ UNCHANGED adminRest

StartRecovery(n) ==
    /\ Plain("admin/user/recovery/start")
    /\ n \in DOMAIN users
    /\ AppendAudit("recovery", n)
    /\ UNCHANGED <<users, adminRest>>

-----------------------------------------------------------------------------
Dispositions == {"retry", "dismiss"}
Statuses == {"enabled", "disabled", "removal_pending"}
Ids == DOMAIN threads \cup {Gone}

Requests ==
    \/ \E w \in DOMAIN workspaces \cup {Gone}, p \in Prompts : StartThread(w, p)
    \/ \E t \in DOMAIN threads, p \in Prompts : StartTurn(t, p)
    \/ \E t \in Ids : Interrupt(t) \/ Delete(t) \/ UpdateSettings(t)
                       \/ Open(t) \/ Rename(t) \/ AddToQueue(t)
    \/ \E t \in Ids, a \in BOOLEAN : Archive(t, a)
    \/ \E i \in DOMAIN interactions : Respond(i)
    \/ ListThreads
    \/ \E p \in Ids \cup DOMAIN sides : StartSide(p) \/ AbandonSide(p) \/ DeleteSide(p)
    \/ AddWorkspace \/ ListWorkspaces \/ ReadPreferences \/ UpdatePreferences
    \/ \E w \in DOMAIN workspaces \cup {Gone} : RemoveWorkspace(w) \/ UpdateDefault(w)
    \/ \E q \in DOMAIN queue : RemoveFromQueue(q) \/ Steer(q)
    \/ \E q \in DOMAIN queue, d \in Dispositions : Acknowledge(q, d)
    \/ \E m \in {"direct", "proxy"} : ConfigureNetwork(m)
    \/ ReadVersion \/ StartLogin \/ Logout \/ RestartAppServer
    \/ \E n \in Names : Register(n) \/ StartRecovery(n)
    \/ \E n \in Names, s \in Statuses : UpdateUser(n, s)
    \/ \E m \in Throws : Refuse(m)
    \/ \E k \in DOMAIN mutations, m \in {"thread/start", "turn/start"} : Replay(k, m)

Next ==
    \/ Requests
    \/ \E k \in DOMAIN mutations : Settle(k)
    \/ TurnEnds
    \/ LoginTimer \/ ResetTimer \/ DisarmTimer \/ ChangeTimer \/ ReadTimer
    \/ Close

Spec == Init /\ [][Next]_vars

-----------------------------------------------------------------------------
(* Of a deleted task nothing is left: settings, usage, questions and their turns are of
   tasks there are. *)
NothingLeft ==
    /\ DOMAIN settings = DOMAIN threads
    /\ DOMAIN usage \subseteq DOMAIN threads
    /\ DOMAIN turnOf = DOMAIN interactions
    /\ \A i \in DOMAIN interactions :
         interactions[i] \in DOMAIN threads /\ turnOf[i].thread = interactions[i]

(* A task that waits for input has a question that can be answered. *)
WaitingIsAnswerable ==
    \A t \in DOMAIN threads : threads[t].state = "waiting-input" => InteractionsOf(t) # {}

\* The answers of a turn, and what may still bring one.
Ends(t, turn) ==
    Cardinality({n \in DOMAIN threads[t].items :
                   threads[t].items[n].turn = turn
                     /\ threads[t].items[n].kind \in {"assistant", "error"}})
    + Cardinality({n \in DOMAIN due : due[n].turn = turn})
    + Cardinality({i \in DOMAIN turnOf : turnOf[i].turn = turn})

(* Reading on from a page's cursor always finds more, a page never starts within the
   records of a turn, and it has the turns it may have, or all that are left. *)
HistoryReadable ==
    "longConversation" \in scene.options =>
    \A t \in DOMAIN threads : \A end \in DOMAIN threads[t].items, turns \in 1 .. 2 :
      LET items == threads[t].items
          start == PageStart(items, end, turns)
          page == {items[n].turn : n \in start + 1 .. end}
      IN  /\ start < end
          /\ start > 0 => items[start].turn # items[start + 1].turn
          /\ Cardinality(page) <= turns

(* A turn ends once: it has an answer, a timer or a question, and never two of them,
   whoever responds, interrupts or deletes while it runs. *)
EndsOnce ==
    \A t \in DOMAIN threads : \A n \in DOMAIN threads[t].items :
      Ends(t, threads[t].items[n].turn) <= 1

(* A side chat's thread is of one parent, and of none when its creation is unknown. *)
SidesApart ==
    \A p \in DOMAIN sides :
      /\ (sides[p].status = "ready") = (sides[p].thread # Gone)
      /\ sides[p].thread # p
      /\ \A o \in DOMAIN sides :
           (o # p /\ sides[p].thread # Gone) => sides[o].thread # sides[p].thread

(* A removal that is pending has its date and no other user one; every revision of a user
   has its entry in the audit; and no two users have one uid. *)
UsersAudited ==
    \A n \in DOMAIN users :
      /\ users[n].removeAfter = (users[n].status = "removal_pending")
      /\ users[n].revision =
           Cardinality({e \in DOMAIN audit : audit[e].name = n /\ audit[e].action # "recovery"})
      /\ \A o \in DOMAIN users : users[o].uid = users[n].uid => o = n

(* One workspace at most is the default. *)
OneDefault == \A v, w \in DOMAIN workspaces : (workspaces[v] /\ workspaces[w]) => v = w

(* Whoever asks under a key is told one outcome. *)
OneOutcome ==
    \A a, b \in told :
      (a.key = b.key /\ {a.says, b.says} \subseteq {"success", "error"}) => a.says = b.says

ScenarioKept ==
    /\ NothingLeft /\ WaitingIsAnswerable /\ EndsOnce /\ SidesApart /\ UsersAudited
    /\ OneDefault /\ OneOutcome /\ HistoryReadable
=============================================================================
