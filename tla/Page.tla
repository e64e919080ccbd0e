-------------------------------- MODULE Page --------------------------------
(***************************************************************************)
(* The page of the web client against one host: the actors of the task     *)
(* view, the task list, the queue and the side chat over the reconnecting  *)
(* gateway port.                                                           *)
(*                                                                         *)
(* An actor applies an event in one step (packages/kernel actor.ts).  An   *)
(* event supersedes the effect of the previous generation, whose answer is *)
(* then ignored, unless its reducer preserves it.  The host starts the     *)
(* requests of a connection in their order and answers when it is ready:   *)
(* what an answer says was read at its start, the interactions at its end. *)
(* Events and answers reach the page in the order in which they were sent. *)
(*                                                                         *)
(* The actors meet only in the connection, so a behaviour uses one part of *)
(* the page, its focus.                                                    *)
(***************************************************************************)
EXTENDS Naturals, Sequences, SequencesExt, FiniteSets, FiniteSetsExt, TLC

CONSTANTS Thread,     \* tasks; each may have a side chat
          Focus,      \* the parts of the page to exercise
          PageSize,   \* TIMELINE_PAGE_SIZE
          MaxOps,     \* bound on steps of users and of Codex
          MaxFaults,  \* bound on failed requests, lost connections and failed leases
          None

Side(p) == <<"side", p>>                 \* the thread of a task's side chat
AnyThread == Thread \cup {Side(p) : p \in Thread}

VARIABLES
    focus,
    link,       \* "up", "down", or "ended" (a terminal reconnect error)
    up,         \* requests the host has not started
    work,       \* requests it has started, with what they read
    down,       \* events and answers on their way to the page
    views,      \* threads this session has open
    lo, hi,     \* items of each thread: lo .. hi
    st, inter, settings,   \* state, pending interaction and settings revision
    name, item, \* list: name of each task; queue: version of the item (0: none)
    chat,       \* side chat of each task: "none", "ready" or "indeterminate"
    thread,     \* thread actor, and the effect of its generation
    timer,      \* the debounced refresh: a thread or None
    wanting,    \* #pendingSettingsRefreshThreadId
    list, queue, side,     \* the other actors
    wanted,     \* ghost: the thread the user asked for last
    strayed,    \* ghost: a failed save opened a task the user had left
    unseen,     \* ghost: a compaction kept an item and no notification of it arrives
    sent,       \* ghost: the initial questions submitted, and where
    ops, faults

host == <<lo, hi, st, inter, settings, name, item, chat>>
actors == <<thread, timer, wanting, list, queue, side>>
ghosts == <<wanted, strayed, unseen, sent>>
vars == <<focus, link, up, work, down, views, host, actors, ghosts, ops, faults>>

Op == ops < MaxOps /\ ops' = ops + 1
Fault == faults < MaxFaults /\ faults' = faults + 1

-----------------------------------------------------------------------------
(***************************************************************************)
(* The timeline (thread-timeline-model.ts)                                 *)
(***************************************************************************)
Run(a, b) == [i \in 1 .. (IF b < a THEN 0 ELSE b - a + 1) |-> a + i - 1]
Latest(a, b) == IF b - a >= PageSize THEN b - PageSize + 1 ELSE a

mergeTimelinePages(earlier, later) ==
    SelectSeq(earlier, LAMBDA i : i \notin ToSet(later)) \o later

(* items and cursor of `current` after the authoritative window `next` *)
mergeAuthoritativeTimelineWindow(current, next, loaded) ==
    LET common == {i \in DOMAIN current.items : current.items[i] \in ToSet(next.items)}
    IN  IF common = {} \/ loaded = {} THEN next
        ELSE [next EXCEPT !.items = mergeTimelinePages(SubSeq(current.items, 1, Min(common) - 1), next.items),
                          !.cursor = current.cursor]

prependAuthoritativeHistoryPage(current, page) ==
    [current EXCEPT !.items = mergeTimelinePages(page.items, current.items), !.cursor = page.cursor]

-----------------------------------------------------------------------------
(***************************************************************************)
(* The thread actor: reducers on its state                                 *)
(***************************************************************************)
Closed == [t |-> None, snap |-> None, status |-> "closed", refreshing |-> FALSE, again |-> FALSE,
           history |-> "idle", loaded |-> {}, replace |-> FALSE, fx |-> "none"]

(* what a dispatch does: the new state, the effect it starts, the requests it sends; "keep"
   preserves the running effect *)
Keep(s) == [s |-> s, keep |-> TRUE, send |-> <<>>]
Start(s, fx, reqs) == [s |-> [s EXCEPT !.fx = fx], keep |-> FALSE, send |-> reqs]
Request(k, t, arg) == [k |-> k, t |-> t, arg |-> arg, live |-> TRUE]
Fetch(s, t) == Start(s, "open", <<Request("open", t, 0)>>)

MutOpenThread(s, t) ==    \* a refresh during a refresh is forgotten
    IF s.t = t /\ s.snap # None
    THEN IF s.history = "loading" \/ s.refreshing THEN Keep(s) ELSE Fetch([s EXCEPT !.refreshing = TRUE], t)
    ELSE LET new == [Closed EXCEPT !.t = t, !.status = "opening"]
         IN  IF s.t \in {None, t} THEN Fetch(new, t)
             ELSE Start(new, "close", <<Request("close", s.t, 0)>>)

OpenThread(s, t) ==
    IF s.t = t /\ s.snap # None
    THEN IF s.history = "loading" THEN Keep([s EXCEPT !.refreshing = TRUE, !.again = TRUE])
         ELSE IF s.refreshing THEN Keep([s EXCEPT !.again = TRUE])
         ELSE Fetch([s EXCEPT !.refreshing = TRUE], t)
    ELSE LET new == [Closed EXCEPT !.t = t, !.status = "opening"]
         IN  IF s.t \in {None, t} THEN Fetch(new, t)
             ELSE Start(new, "close", <<Request("close", s.t, 0)>>)

Opened(s, t, snap) ==
    LET shown == IF s.snap = None \/ s.replace THEN snap
                 ELSE mergeAuthoritativeTimelineWindow(s.snap, snap, s.loaded)
        new == [s EXCEPT !.t = t, !.snap = shown, !.status = snap.st,
                         !.loaded = IF s.replace THEN {} ELSE @ \cap ToSet(shown.items),
                         !.refreshing = s.again, !.again = FALSE, !.replace = @ /\ s.again]
    IN  IF s.again THEN Fetch(new, t) ELSE Start(new, "none", <<>>)

LoadEarlier(s) ==
    IF s.snap = None \/ s.refreshing \/ s.history = "loading" \/ s.snap.cursor = 0 THEN Keep(s)
    ELSE Start([s EXCEPT !.history = "loading"], "history", <<Request("history", s.t, s.snap.cursor)>>)

HistorySettled(s) ==
    IF s.again THEN Fetch([s EXCEPT !.again = FALSE, !.refreshing = TRUE], s.t)
    ELSE Start(s, "none", <<>>)
HistoryLoaded(s, page) ==
    HistorySettled([s EXCEPT !.snap = prependAuthoritativeHistoryPage(@, page), !.history = "idle",
                             !.loaded = IF page.items = <<>> THEN @ ELSE @ \cup ToSet(page.items) \cup ToSet(s.snap.items)])
HistoryFailed(s) == HistorySettled([s EXCEPT !.history = "failed"])

Lost(snap) == IF snap = None THEN None ELSE [snap EXCEPT !.lost = TRUE]    \* ghost
ThreadFailed(s) ==
    Start([s EXCEPT !.status = "failed", !.refreshing = FALSE, !.snap = Lost(@)], "none", <<>>)
Reconnecting(s) ==
    Start([s EXCEPT !.status = "reconnecting", !.refreshing = FALSE, !.history = "idle", !.again = FALSE],
          "none", <<>>)
MutCloseThread(s) == Keep(Closed)    \* the effect of the closed task is not superseded

CloseThread(s) == Start(Closed, "none", IF s.t = None THEN <<>> ELSE <<Request("close", s.t, 0)>>)
SettingsUpdated(s, t, rev) ==
    IF s.t # t \/ s.snap = None THEN Keep(s)
    ELSE Keep([s EXCEPT !.snap.settings = IF rev < @ THEN @ ELSE rev])

MutApplyGatewayEvent(s, m) ==    \* an event supersedes the running effect
    Start(IF s.t # m.t \/ s.snap = None \/ m.k # "state" THEN s
          ELSE [s EXCEPT !.status = m.v, !.snap.st = m.v], "none", <<>>)

applyGatewayEvent(s, m) ==
    Keep(IF s.t # m.t \/ s.snap = None THEN s
         ELSE CASE m.k = "state" -> [s EXCEPT !.status = m.v, !.snap.st = m.v]
                [] m.k = "compacted" -> [s EXCEPT !.replace = TRUE]
                [] m.k = "created" -> [s EXCEPT !.status = "waiting-input", !.snap.inter = TRUE]
                [] m.k = "resolved" -> [s EXCEPT !.snap.inter = FALSE]
                [] m.k = "lease/failed" -> [s EXCEPT !.status = "failed", !.refreshing = FALSE, !.snap.lost = TRUE]
                [] OTHER -> s)

-----------------------------------------------------------------------------
(***************************************************************************)
(* Actor.dispatch, over the port                                           *)
(***************************************************************************)
ThreadKinds == {"open", "close", "history"}

(* Messages for the page *)
Event(k, t, v) == [k |-> k, answer |-> FALSE, t |-> t, v |-> v]
IsAnswer(m, kinds) == m.answer /\ m.k \in kinds

(* An answer to one of these requests can still come. *)
Outstanding(kinds) ==
    \/ \E i \in DOMAIN up : up[i].k \in kinds /\ up[i].live
    \/ \E r \in work : r.k \in kinds
    \/ \E i \in DOMAIN down : IsAnswer(down[i], kinds)

(* The requests of a superseded generation: their answers are ignored.  A request that was
   not started yet still is, and opens or closes the view. *)
Superseded(kinds) ==
    [up |-> [i \in DOMAIN up |-> IF up[i].k \in kinds THEN [up[i] EXCEPT !.live = FALSE] ELSE up[i]],
     work |-> {r \in work : r.k \notin kinds},
     down |-> SelectSeq(down, LAMBDA m : ~IsAnswer(m, kinds))]

(* A request that no transport takes is rejected: the effect fails before anything else. *)
Refused(r, l) == l # "up" /\ r.send # <<>>
Rejected(s) ==
    LET h == HistoryFailed(s)
    IN  IF s.fx = "history" /\ h.send = <<>> THEN h.s
        ELSE ThreadFailed(IF s.fx = "history" THEN h.s ELSE s).s

(* #flushPendingSettingsRefresh, the listener of every change of the thread actor *)
Busy(s) == s.status = "opening" \/ s.refreshing
Flush(s, w, tm) ==
    /\ wanting' = IF w # None /\ s.t = w /\ Busy(s) THEN w ELSE None
    /\ timer' = IF w # None /\ s.t = w /\ ~Busy(s) THEN w ELSE tm

(* dispatch on the thread actor; `rest` is what is left of the messages for the page,
   `w` and `tm` the pending refreshes *)
Dispatch(r, rest, w, tm, l) ==
    LET new == IF Refused(r, l) /\ r.s.fx # "none" THEN Rejected(r.s) ELSE r.s
        old == Superseded(IF r.keep THEN {} ELSE ThreadKinds)
    IN  /\ thread' = new
        /\ up' = old.up \o (IF Refused(r, l) THEN <<>> ELSE r.send)
        /\ work' = old.work
        /\ down' = IF r.keep THEN rest ELSE SelectSeq(rest, LAMBDA m : ~IsAnswer(m, ThreadKinds))
        /\ Flush(new, w, tm)

(* dispatch of an actor with requests of `kinds`: what remains of the messages for the page *)
MutSending(kinds, reqs, rest, l) ==    \* requests are kept for a transport that is gone
    /\ up' = Superseded(kinds).up \o reqs
    /\ work' = Superseded(kinds).work
    /\ down' = SelectSeq(rest, LAMBDA m : ~IsAnswer(m, kinds))

Sending(kinds, reqs, rest, l) ==
    /\ up' = Superseded(kinds).up \o (IF l = "up" THEN reqs ELSE <<>>)
    /\ work' = Superseded(kinds).work
    /\ down' = SelectSeq(rest, LAMBDA m : ~IsAnswer(m, kinds))
Receiving(rest) == down' = rest /\ UNCHANGED <<up, work>>

-----------------------------------------------------------------------------
(***************************************************************************)
(* The task list actor                                                     *)
(***************************************************************************)
Scope == {"active", "archived"}
Listed(sc) == IF sc = "active" THEN Thread ELSE {CHOOSE t \in Thread : TRUE}
FirstPage(sc) == {CHOOSE t \in Listed(sc) : TRUE}
NoTasks == [t \in {} |-> 0]

(* LOAD: the new state, and whether a request is sent *)
LoadTasks(s, sc) ==
    IF s.scope = sc /\ s.flight THEN [s EXCEPT !.again = TRUE]
    ELSE [status |-> "loading", tasks |-> IF s.scope = sc THEN s.tasks ELSE NoTasks,
          flight |-> TRUE, again |-> FALSE, more |-> s.scope = sc /\ s.more, scope |-> sc, changes |-> NoTasks,
          missed |-> s.scope = sc /\ s.missed]
StartsLoad(s, sc) == ~(s.scope = sc /\ s.flight)

ReplaceStates(tasks, changes) ==
    [t \in DOMAIN tasks |-> IF t \in DOMAIN changes THEN [tasks[t] EXCEPT !.st = changes[t]] ELSE tasks[t]]

TasksLoaded(s, page, append) ==
    LET merged == IF append THEN [t \in DOMAIN s.tasks \cup DOMAIN page.tasks |->
                                    IF t \in DOMAIN page.tasks THEN page.tasks[t] ELSE s.tasks[t]]
                  ELSE page.tasks
    IN  [s EXCEPT !.status = IF s.again THEN "loading" ELSE "ready", !.flight = s.again, !.again = FALSE,
                  !.tasks = ReplaceStates(merged, s.changes), !.changes = NoTasks, !.more = page.more,
                  !.missed = @ /\ append]

MutThreadStateChanged(s, t, v) ==    \* not kept beside a page that is being read
    [s EXCEPT !.tasks = ReplaceStates(@, [x \in {t} |-> v])]

ThreadStateChanged(s, t, v) ==
    [s EXCEPT !.tasks = ReplaceStates(@, [x \in {t} |-> v]),
              !.changes = IF s.flight THEN [x \in DOMAIN @ \cup {t} |-> IF x = t THEN v ELSE @[x]] ELSE @]

(* FAILED: with a refresh pending, another request *)
TasksFailed(s) ==
    IF s.again THEN [s EXCEPT !.status = "loading", !.flight = TRUE, !.again = FALSE, !.changes = NoTasks]
    ELSE [s EXCEPT !.status = "failed", !.flight = FALSE, !.changes = NoTasks, !.missed = TRUE]

(* A rejected request fails at once, and so does the one of the pending refresh. *)
Offline(s) == IF s.flight THEN [s EXCEPT !.status = "failed", !.flight = FALSE, !.again = FALSE, !.changes = NoTasks,
                                        !.missed = TRUE]
              ELSE s

RefreshTasks(sc, rest, l) ==
    LET new == LoadTasks(list, sc)
    IN  /\ list' = IF StartsLoad(list, sc) /\ l # "up" THEN Offline(new) ELSE new
        /\ IF StartsLoad(list, sc) THEN Sending({"list"}, <<Request("list", sc, FALSE)>>, rest, l)
           ELSE Receiving(rest)

-----------------------------------------------------------------------------
(***************************************************************************)
(* The queue actor, with one item                                          *)
(***************************************************************************)
QueueKinds == {"queue/list", "queue/mutate", "queue/status"}
QueueState(status, v, late) == [status |-> status, item |-> v, late |-> late]

MutLoadQueue(rest, l) == UNCHANGED queue /\ Receiving(rest)    \* no reload after a reconnection

LoadQueue(rest, l) ==
    IF queue.status \in {"mutating", "reconciling"} THEN UNCHANGED queue /\ Receiving(rest)
    ELSE /\ queue' = [queue EXCEPT !.status = IF l = "up" THEN "loading" ELSE "ready"]
         /\ Sending(QueueKinds, <<Request("queue/list", None, 0)>>, rest, l)

-----------------------------------------------------------------------------
(***************************************************************************)
(* The side chat actor and the thread it selects                           *)
(***************************************************************************)
SideMutations == {"side/start", "side/delete", "side/abandon"}
SideIdle == [parent |-> None, chat |-> "none", status |-> "idle", question |-> None,
             op |-> "none", done |-> FALSE, late |-> FALSE]
sideMutationBusy(s) == s.status \in {"creating", "deleting", "reconciling"}

SideLoaded(s, c) ==
    [s EXCEPT !.chat = c, !.status = IF c = "indeterminate" THEN "review" ELSE "idle",
              !.op = "none", !.done = FALSE, !.late = FALSE]
SideDeleted(s) == [SideIdle EXCEPT !.parent = s.parent]
(* CREATED or DELETED; late: the host has moved on since *)
SideMutated(s, c, late) == [(IF c = "none" THEN SideDeleted(s) ELSE SideLoaded(s, c)) EXCEPT !.late = late]
SideFailed(s, status) == [s EXCEPT !.status = status, !.op = "none", !.done = FALSE]
SideReload(s) == IF sideMutationBusy(s) \/ s.parent = None THEN s ELSE [s EXCEPT !.status = "loading"]

(* #synchronizeSelection: the thread actor follows the side chat *)
Selected(s) == IF s.chat = "ready" THEN Side(s.parent) ELSE None
Synchronized(s) ==
    IF Selected(s) = thread.t THEN Keep(thread)
    ELSE IF Selected(s) = None THEN CloseThread(thread) ELSE OpenThread(thread, Selected(s))

(* #sendInitialQuestion, the listener of both actors *)
Asks(s, th) == s.question # None /\ s.status = "idle" /\ th.status = "idle" /\ th.t = Selected(s)
AskQuestion(s, th) ==
    /\ side' = IF Asks(s, th) THEN [s EXCEPT !.question = None] ELSE s
    /\ sent' = IF Asks(s, th) THEN Append(sent, [asked |-> s.question, to |-> th.t]) ELSE sent

(* a change of the side chat actor; `reqs` are the requests of its effect *)
SideDispatch(s, reqs, rest, l) ==
    LET r == Synchronized(s)
        kinds == (IF reqs = <<>> THEN {} ELSE {"side/read"}) \cup (IF r.keep THEN {} ELSE ThreadKinds)
        refused == reqs # <<>> /\ l # "up"
        new == IF refused THEN SideFailed(s, "failed") ELSE s
        th == IF Refused(r, l) /\ r.s.fx # "none" THEN Rejected(r.s) ELSE r.s
    IN  /\ Sending(kinds, r.send \o reqs, rest, l)
        /\ thread' = th
        /\ AskQuestion(new, th)

(* a change of the thread actor of the side chat *)
SideThread(r, rest, tm, l) ==
    /\ Dispatch(r, rest, None, tm, l)
    /\ AskQuestion(side, thread')

(* refreshThread *)
SideRefreshed == IF thread.t # None /\ ~sideMutationBusy(side) THEN OpenThread(thread, thread.t) ELSE Keep(thread)

-----------------------------------------------------------------------------
Quietly == UNCHANGED <<focus, link, views, host, strayed, unseen, ops, faults>>

(* What a behaviour with this focus is about *)
Shown == IF focus = "side" THEN {Side(p) : p \in Thread} ELSE Thread

Init ==
    /\ focus \in Focus /\ link = "up" /\ work = {} /\ down = <<>> /\ views = {}
    /\ lo = [t \in AnyThread |-> 1] /\ hi = [t \in AnyThread |-> PageSize + 1]
    /\ st = [t \in AnyThread |-> "idle"] /\ inter = [t \in AnyThread |-> FALSE]
    /\ settings = [t \in AnyThread |-> 0] /\ name = [t \in Thread |-> 0] /\ item = 0
    /\ chat = [p \in Thread |-> "none"]
    /\ thread = Closed /\ timer = None /\ wanting = None
    /\ list = [status |-> "loading", tasks |-> NoTasks, flight |-> focus = "tasks", again |-> FALSE,
               more |-> FALSE, scope |-> "active", changes |-> NoTasks, missed |-> FALSE]
    /\ queue = QueueState("loading", 0, FALSE)
    /\ side = SideIdle
    /\ up = IF focus = "tasks" THEN <<Request("list", "active", FALSE)>>       \* start()
            ELSE IF focus = "queue" THEN <<Request("queue/list", None, 0)>> ELSE <<>>
    /\ wanted = None /\ strayed = FALSE /\ unseen = FALSE /\ sent = <<>> /\ ops = 0 /\ faults = 0

-----------------------------------------------------------------------------
(***************************************************************************)
(* The user                                                                *)
(***************************************************************************)
User == Op /\ UNCHANGED <<focus, link, views, host, strayed, unseen, faults>>

OpenTask(t) ==
    /\ focus = "thread" /\ thread.t # t
    /\ User
    /\ Dispatch(OpenThread(thread, t), down, wanting, timer, link)
    /\ wanted' = t
    /\ UNCHANGED <<list, queue, side, sent>>

CloseTask ==
    /\ focus = "thread" /\ thread.t # None
    /\ User
    /\ Dispatch(CloseThread(thread), down, wanting, timer, link)
    /\ wanted' = None
    /\ UNCHANGED <<list, queue, side, sent>>

Earlier ==
    /\ focus = "thread" /\ ~LoadEarlier(thread).keep
    /\ User
    /\ Dispatch(LoadEarlier(thread), down, wanting, timer, link)
    /\ UNCHANGED <<list, queue, side, wanted, sent>>

(* ThreadSettingsPanel save: a request of its own, not an effect of the actor *)
SaveSettings ==
    /\ focus = "thread" /\ thread.snap # None /\ link = "up"
    /\ ~Outstanding({"save"})
    /\ User
    /\ up' = Append(up, Request("save", thread.t, thread.snap.settings))
    /\ UNCHANGED <<work, down, actors, wanted, sent>>

(* The user reloads the list or changes its scope, or asks for more. *)
ChooseScope(sc) ==
    /\ focus = "tasks"
    /\ User
    /\ RefreshTasks(sc, down, link)
    /\ UNCHANGED <<thread, timer, wanting, queue, side, wanted, sent>>

More ==
    /\ focus = "tasks" /\ ~list.flight /\ list.more
    /\ User
    /\ list' = IF link = "up" THEN [list EXCEPT !.status = "paginating", !.flight = TRUE]
               ELSE [list EXCEPT !.status = "failed", !.missed = TRUE]
    /\ Sending({"list"}, <<Request("list", list.scope, TRUE)>>, down, link)
    /\ UNCHANGED <<thread, timer, wanting, queue, side, wanted, sent>>

(* ADD, STEER, ACKNOWLEDGE or REMOVE *)
MutateQueue(kind) ==
    /\ focus = "queue" /\ queue.status = "ready" /\ kind \in {"change", "remove"}
    /\ User
    /\ queue' = [queue EXCEPT !.status = IF link = "up" THEN "mutating" ELSE "ready"]
    /\ Sending(QueueKinds, <<Request("queue/mutate", None, kind)>>, down, link)
    /\ UNCHANGED <<thread, timer, wanting, list, side, wanted, sent>>

ReloadQueue ==
    /\ focus = "queue" /\ User
    /\ LoadQueue(down, link)
    /\ UNCHANGED <<thread, timer, wanting, list, side, wanted, sent>>

MutSelectSide(p) ==    \* the question of another task is carried along
    /\ focus = "side" /\ ~sideMutationBusy(side) /\ side.parent # p
    /\ User
    /\ SideDispatch([SideIdle EXCEPT !.parent = p, !.status = "loading", !.question = side.question],
                    <<Request("side/read", p, 0)>>, down, link)
    /\ UNCHANGED <<timer, wanting, list, queue, wanted>>

SelectSide(p) ==
    /\ focus = "side" /\ ~sideMutationBusy(side) /\ side.question = None /\ side.parent # p
    /\ User
    /\ SideDispatch([SideIdle EXCEPT !.parent = p, !.status = "loading"], <<Request("side/read", p, 0)>>, down, link)
    /\ UNCHANGED <<timer, wanting, list, queue, wanted>>

StartSide(asks) ==
    /\ focus = "side" /\ side.parent # None /\ side.chat = "none" /\ side.status \in {"idle", "failed"}
    /\ User
    /\ SideDispatch([side EXCEPT !.status = "creating", !.op = "side/start",
                                 !.question = IF asks THEN <<side.parent, ops>> ELSE @],
                    <<Request("side/start", side.parent, 0)>>, down, link)
    /\ UNCHANGED <<timer, wanting, list, queue, wanted>>

(* DELETE and ABANDON *)
DeleteSide(op) ==
    /\ focus = "side" /\ ~sideMutationBusy(side)
    /\ \/ op = "side/delete" /\ side.chat # "none"
       \/ op = "side/abandon" /\ side.chat = "indeterminate"
    /\ User
    /\ SideDispatch([side EXCEPT !.status = "deleting", !.op = op], <<Request(op, side.parent, 0)>>, down, link)
    /\ UNCHANGED <<timer, wanting, list, queue, wanted>>

-----------------------------------------------------------------------------
(***************************************************************************)
(* Codex and the other clients                                             *)
(***************************************************************************)
Emit(msgs) == down' = IF link = "up" THEN down \o msgs ELSE down
ToView(t, k) == IF t \in views THEN <<Event(k, t, None)>> ELSE <<>>
World == Op /\ UNCHANGED <<focus, link, up, work, views, actors, wanted, strayed, sent, faults>>

(* A turn starts or ends: a lease state for every session, a notification for the views *)
Turn(t) ==
    /\ focus \in {"thread", "tasks", "side"} /\ t \in Shown
    /\ World
    /\ st' = [st EXCEPT ![t] = IF @ = "idle" THEN "running" ELSE "idle"]
    /\ Emit(<<Event("state", t, st'[t])>> \o ToView(t, "turn"))
    /\ UNCHANGED <<lo, hi, inter, settings, name, item, chat, unseen>>

Item(t) ==
    /\ focus \in {"thread", "side"} /\ t \in Shown
    /\ World
    /\ hi' = [hi EXCEPT ![t] = @ + 1]
    /\ Emit(ToView(t, "item"))
    /\ UNCHANGED <<lo, st, inter, settings, name, item, chat, unseen>>

(* After a compaction nothing or only the last item is left, and one item is new. *)
Compact(t, first) ==
    /\ focus = "thread" /\ t \in Shown /\ first \in {hi[t], hi[t] + 1} /\ lo[t] < first
    /\ World
    /\ lo' = [lo EXCEPT ![t] = first] /\ hi' = [hi EXCEPT ![t] = @ + 1]
    /\ Emit(ToView(t, "compacted"))
    /\ unseen' = (unseen \/ (first = hi[t] /\ (link # "up" \/ t \notin views)))
    /\ UNCHANGED <<st, inter, settings, name, item, chat>>

Interaction(t) ==
    /\ focus = "thread" /\ t \in Shown /\ (inter[t] \/ st[t] = "running")
    /\ World
    /\ inter' = [inter EXCEPT ![t] = ~@]
    /\ Emit(ToView(t, IF inter[t] THEN "resolved" ELSE "created"))
    /\ UNCHANGED <<lo, hi, st, settings, name, item, chat, unseen>>

(* updateSettings for another page: no open of the task, which takes the same lock, comes
   between the event of Codex and the stored settings. *)
ChangeSettings(t) ==
    /\ focus = "thread" /\ t \in Shown
    /\ World
    /\ settings' = [settings EXCEPT ![t] = @ + 1]
    /\ Emit(ToView(t, "settings"))
    /\ UNCHANGED <<lo, hi, st, inter, name, item, chat, unseen>>

Rename(t) ==
    /\ focus = "tasks"
    /\ World
    /\ name' = [name EXCEPT ![t] = @ + 1]
    /\ Emit(<<Event("name", t, None)>>)
    /\ UNCHANGED <<lo, hi, st, inter, settings, item, chat, unseen>>

QueueMoves(v) ==
    /\ focus = "queue" /\ v \in {0, ops + 1} /\ v # item
    /\ World
    /\ item' = v
    /\ Emit(<<Event("queue", None, v)>>)
    /\ UNCHANGED <<lo, hi, st, inter, settings, name, chat, unseen>>

ChatMoves(p, c) ==
    /\ focus = "side" /\ c \in {"none", "ready", "indeterminate"} \ {chat[p]}
    /\ World
    /\ chat' = [chat EXCEPT ![p] = c]
    /\ Emit(<<Event("side", p, None)>>)
    /\ UNCHANGED <<lo, hi, st, inter, settings, name, item, unseen>>

-----------------------------------------------------------------------------
(***************************************************************************)
(* The host: a request starts, and is answered                             *)
(***************************************************************************)
Answer(r, v) == <<[k |-> r.k, answer |-> TRUE, t |-> r.t, v |-> v]>>
Working(r, v) == work' = IF r.live THEN work \cup {[k |-> r.k, t |-> r.t, arg |-> r.arg, read |-> v, lost |-> FALSE]} ELSE work
HostStep == link = "up" /\ UNCHANGED <<focus, link, thread, timer, wanting, list, queue, ghosts, ops>>

Window(t, a, b) == [items |-> Run(a, b), cursor |-> IF a > lo[t] THEN a ELSE 0]

HostOpen(r) ==     \* AgentGatewaySession.openThread, then ThreadService.open
    /\ views' = views \cup {r.t}
    /\ Working(r, Window(r.t, Latest(lo[r.t], hi[r.t]), hi[r.t])
                    @@ [st |-> st[r.t], settings |-> settings[r.t]])
    /\ UNCHANGED <<down, host>>
HostClose(r) ==    \* closeThread
    /\ views' = views \ {r.t}
    /\ down' = IF r.live THEN down \o Answer(r, "ok") ELSE down
    /\ UNCHANGED <<work, host>>
HostHistory(r) ==  \* ThreadService.history: a cursor that is gone is an error
    /\ Working(r, IF r.arg \in lo[r.t] .. hi[r.t] THEN Window(r.t, Latest(lo[r.t], r.arg - 1), r.arg - 1) ELSE None)
    /\ UNCHANGED <<down, views, host>>
HostSave(r) ==     \* thread/settings/update
    /\ settings' = [settings EXCEPT ![r.t] = IF r.arg = @ THEN @ + 1 ELSE @]
    /\ Working(r, IF r.arg = settings[r.t] THEN r.arg + 1 ELSE None)
    /\ down' = down \o (IF r.arg = settings[r.t] THEN ToView(r.t, "settings") ELSE <<>>)
    /\ UNCHANGED <<views, lo, hi, st, inter, name, item, chat>>
HostList(r) ==     \* ThreadService.list
    LET page == IF r.arg THEN Listed(r.t) \ FirstPage(r.t) ELSE FirstPage(r.t)
    IN  /\ Working(r, [tasks |-> [t \in page |-> [st |-> st[t], name |-> name[t]]],
                       more |-> ~r.arg /\ Listed(r.t) # FirstPage(r.t)])
        /\ UNCHANGED <<down, views, host>>
HostQueue(r) ==    \* queue/list and mutation/status read when they answer
    /\ IF r.k = "queue/mutate"
       THEN LET new == IF r.arg = "remove" THEN 0 ELSE 10 + ops
            IN  /\ item' = new
                /\ down' = IF new = item THEN down ELSE Append(down, Event("queue", None, new))
                /\ Working(r, IF new = item THEN None ELSE <<new>>)
       ELSE Working(r, 0) /\ UNCHANGED <<item, down>>
    /\ UNCHANGED <<views, lo, hi, st, inter, settings, name, chat>>
HostSide(r) ==     \* SideChatService: what these operations do is the subject of SideChats
    LET new == IF r.k = "side/read" THEN chat[r.t] ELSE IF r.k = "side/start" THEN "ready" ELSE "none"
        can == r.k # "side/start" \/ chat[r.t] = "none"
    IN  /\ chat' = IF can THEN [chat EXCEPT ![r.t] = new] ELSE chat
        /\ down' = IF can /\ new # chat[r.t] THEN Append(down, Event("side", r.t, None)) ELSE down
        /\ Working(r, IF can THEN new ELSE None)
        /\ side' = IF can /\ r.k \in SideMutations THEN [side EXCEPT !.done = TRUE] ELSE side
        /\ UNCHANGED <<views, lo, hi, st, inter, settings, name, item>>

HostStarts ==
    /\ up # <<>> /\ HostStep
    /\ up' = Tail(up)
    /\ LET r == Head(up)
       IN  CASE r.k = "open" -> HostOpen(r)
             [] r.k = "close" -> HostClose(r)
             [] r.k = "history" -> HostHistory(r)
             [] r.k = "save" -> HostSave(r)
             [] r.k = "list" -> HostList(r)
             [] r.k \in QueueKinds -> HostQueue(r)
             [] OTHER -> HostSide(r)
    /\ (IF Head(up).k \in SideMutations \cup {"side/read"} THEN UNCHANGED faults ELSE UNCHANGED <<faults, side>>)

(* None: an error *)
Result(r) ==
    CASE r.k = "open" -> r.read @@ [inter |-> inter[r.t], lost |-> r.lost]
      [] r.k = "queue/list" -> <<item>>
      [] r.k = "queue/mutate" -> IF r.read = None THEN None ELSE r.read \o <<r.read[1] # item>>
      [] r.k \in SideMutations -> IF r.read = None THEN None ELSE <<r.read, r.read # chat[r.t]>>
      [] OTHER -> r.read

HostAnswers(r) ==
    /\ HostStep
    /\ work' = work \ {r}
    /\ \/ \E v \in IF r.k = "queue/status" THEN {"completed", "pending", "missing"} ELSE {Result(r)} :
              down' = down \o Answer(r, v) /\ UNCHANGED faults
       \/ (IF r.lost THEN UNCHANGED faults ELSE Fault) /\ down' = down \o Answer(r, None)
    /\ UNCHANGED <<up, views, host, side>>

-----------------------------------------------------------------------------
(***************************************************************************)
(* The page: events and answers                                            *)
(***************************************************************************)
Msg == Head(down)
Rest == Tail(down)
Received == down # <<>> /\ Quietly

ThreadAnswer(m) ==
    CASE IsAnswer(m, {"open"}) ->
             IF m.v = None THEN ThreadFailed(thread) ELSE Opened(thread, m.t, m.v)
      [] IsAnswer(m, {"history"}) ->
             IF m.v = None THEN HistoryFailed(thread) ELSE HistoryLoaded(thread, m.v)
      [] IsAnswer(m, {"close"}) ->    \* the effect goes on, in its generation
             IF thread.fx # "close" THEN Keep(thread)
             ELSE IF m.v = None THEN ThreadFailed(thread)
             ELSE [Fetch(thread, thread.t) EXCEPT !.keep = TRUE]
      [] IsAnswer(m, {"save"}) ->     \* a conflict is followed by a refresh
             IF m.v = None THEN OpenThread(thread, m.t) ELSE SettingsUpdated(thread, m.t, m.v)
      [] OTHER -> applyGatewayEvent(thread, m)

Notes == {"turn", "item", "compacted"}
ReceiveThread ==
    /\ focus = "thread" /\ down # <<>>
    /\ LET refresh == Msg.t = thread.t
       IN  Dispatch(ThreadAnswer(Msg), Rest, IF Msg.k = "settings" /\ refresh THEN Msg.t ELSE wanting,
                    IF Msg.k \in Notes /\ refresh THEN Msg.t ELSE timer, link)
    /\ strayed' = (strayed \/ (IsAnswer(Msg, {"save"}) /\ Msg.v = None /\ Msg.t # wanted))
    /\ UNCHANGED <<focus, link, views, host, unseen, ops, faults, list, queue, side, wanted, sent>>

(* #scheduleThreadRefresh: the timer *)
TimerFires ==
    /\ timer # None
    /\ IF focus = "side" THEN SideThread(SideRefreshed, down, None, link)
       ELSE /\ Dispatch(IF thread.t = timer THEN OpenThread(thread, timer) ELSE Keep(thread), down, wanting, None, link)
            /\ UNCHANGED <<side, sent>>
    /\ Quietly
    /\ UNCHANGED <<list, queue, wanted>>

ReceiveTasks ==
    /\ focus = "tasks" /\ Received
    /\ CASE Msg.k = "state" -> list' = ThreadStateChanged(list, Msg.t, Msg.v) /\ Receiving(Rest)
         [] Msg.k = "name" -> RefreshTasks(list.scope, Rest, link)
         [] OTHER ->
             LET new == IF Msg.v = None THEN TasksFailed(list)
                        ELSE TasksLoaded(list, Msg.v, list.status = "paginating")
             IN  /\ list' = new
                 /\ Sending({"list"}, IF new.flight THEN <<Request("list", list.scope, FALSE)>> ELSE <<>>, Rest, link)
    /\ UNCHANGED <<thread, timer, wanting, queue, side, wanted, sent>>

ReceiveQueue ==
    /\ focus = "queue" /\ Received
    /\ CASE Msg.k = "queue" -> queue' = [queue EXCEPT !.item = Msg.v, !.late = FALSE] /\ Receiving(Rest)
         [] IsAnswer(Msg, {"queue/list"}) ->
             /\ queue' = IF Msg.v = None THEN [queue EXCEPT !.status = "ready"] ELSE QueueState("ready", Msg.v[1], FALSE)
             /\ Sending(QueueKinds, <<>>, Rest, link)
         [] IsAnswer(Msg, {"queue/mutate"}) ->
             /\ queue' = IF Msg.v = None THEN [queue EXCEPT !.status = "ready"]
                         ELSE QueueState("ready", Msg.v[1], Msg.v[2])
             /\ Sending(QueueKinds, <<>>, Rest, link)
         [] Msg.v = "completed" ->           \* RECONCILED
             /\ queue' = [queue EXCEPT !.status = "loading"]
             /\ Sending(QueueKinds, <<Request("queue/list", None, 0)>>, Rest, link)
         [] Msg.v = "pending" ->             \* RECONCILE, a second later
             /\ Sending(QueueKinds, <<Request("queue/status", None, 0)>>, Rest, link)
             /\ UNCHANGED queue
         [] OTHER ->                         \* FAILED
             /\ queue' = [queue EXCEPT !.status = IF Msg.v = None THEN "ready" ELSE "indeterminate"]
             /\ Sending(QueueKinds, <<>>, Rest, link)
    /\ UNCHANGED <<thread, timer, wanting, list, side, wanted, sent>>

ReceiveSide ==
    /\ focus = "side" /\ Received
    /\ CASE IsAnswer(Msg, SideMutations \cup {"side/read"}) ->
             /\ SideDispatch(IF Msg.v = None THEN SideFailed(side, "failed")
                             ELSE IF IsAnswer(Msg, {"side/read"}) THEN SideLoaded(side, Msg.v)
                             ELSE SideMutated(side, Msg.v[1], Msg.v[2]), <<>>, Rest, link)
             /\ UNCHANGED <<timer, wanting>>
         [] Msg.k = "side" ->
             /\ IF Msg.t = side.parent /\ ~sideMutationBusy(side)
                THEN SideDispatch(SideReload(side), <<Request("side/read", side.parent, 0)>>, Rest, link)
                ELSE Receiving(Rest) /\ UNCHANGED <<thread, side, sent>>
             /\ UNCHANGED <<timer, wanting>>
         [] OTHER -> SideThread(ThreadAnswer(Msg), Rest,
                                IF Msg.k \in Notes /\ Msg.t = thread.t THEN Msg.t ELSE timer, link)
    /\ UNCHANGED <<list, queue, wanted>>

(* durableMutation learns the outcome from the receipt *)
SideReconciled ==
    /\ focus = "side" /\ side.status = "reconciling" /\ link = "up"
    /\ \E c \in {"failed", "review"} \cup (IF side.done THEN {"done"} ELSE {}) :
          SideDispatch(IF c # "done" THEN SideFailed(side, c)
                       ELSE LET made == IF side.op = "side/start" THEN "ready" ELSE "none"
                            IN  SideMutated(side, made, chat[side.parent] # made), <<>>, down, link)
    /\ Quietly
    /\ UNCHANGED <<timer, wanting, list, queue, wanted>>

-----------------------------------------------------------------------------
(***************************************************************************)
(* Faults and the port                                                     *)
(***************************************************************************)
(* The transport is invalidated: every request is rejected, the thread actor is told, and
   the rejected effects of the other actors fail. *)
Disconnect ==
    /\ link = "up" /\ Fault
    /\ link' = "down" /\ views' = {}
    /\ up' = <<>> /\ work' = {} /\ down' = <<>>
    /\ thread' = Reconnecting(thread).s
    /\ (IF focus = "thread" THEN Flush(thread', wanting, timer) ELSE UNCHANGED <<wanting, timer>>)
    /\ list' = Offline(list)
    /\ queue' = [queue EXCEPT !.status = IF focus = "queue" /\ @ # "indeterminate" THEN "ready" ELSE @]
    /\ side' = IF sideMutationBusy(side) THEN [side EXCEPT !.status = "reconciling"]
               ELSE IF side.status = "loading" THEN SideFailed(side, "failed") ELSE side
    /\ unseen' = (unseen \/ \E i \in DOMAIN down : down[i].k = "compacted")
    /\ UNCHANGED <<focus, host, wanted, strayed, sent, ops>>

(* #restoreAuthoritativeState, and the listener of the side chat *)
Restore ==
    CASE focus = "thread" ->
           /\ Dispatch(IF thread.t = None THEN Keep(thread) ELSE OpenThread(thread, thread.t), down, wanting, timer, "up")
           /\ UNCHANGED <<list, queue, side>>
      [] focus = "tasks" -> RefreshTasks(list.scope, down, "up") /\ UNCHANGED <<thread, timer, wanting, queue, side>>
      [] focus = "queue" -> LoadQueue(down, "up") /\ UNCHANGED <<thread, timer, wanting, list, side>>
      [] OTHER ->
           LET r == SideRefreshed
               reads == side.parent # None /\ ~sideMutationBusy(side)
           IN  /\ Sending({}, (IF reads THEN <<Request("side/read", side.parent, 0)>> ELSE <<>>) \o r.send, down, "up")
               /\ side' = SideReload(side) /\ thread' = r.s
               /\ UNCHANGED <<timer, wanting, list, queue>>

Reconnect ==
    /\ link = "down"
    /\ \/ link' = "up" /\ Restore
       \/ link' = "ended" /\ UNCHANGED <<up, work, down, actors>>    \* isTerminalReconnectError
    /\ UNCHANGED <<focus, views, host, ghosts, ops, faults>>

(* The client of the lease is gone: the views of the task are told and hear no more. *)
LeaseFails(t) ==
    /\ focus = "thread" /\ link = "up" /\ t \in views /\ Fault
    /\ views' = views \ {t}
    /\ work' = {IF r.k = "open" /\ r.t = t THEN [r EXCEPT !.lost = TRUE] ELSE r : r \in work}
    /\ down' = down \o <<Event("state", t, "failed"), Event("lease/failed", t, None)>>
    /\ UNCHANGED <<focus, link, up, host, actors, ghosts, ops>>

(* REQUEST_TIMEOUT_MS passes: UNKNOWN, and STATUS *)
QueueTimesOut ==
    /\ focus = "queue" /\ queue.status = "mutating" /\ link = "up" /\ Fault
    /\ queue' = [queue EXCEPT !.status = "reconciling"]
    /\ Sending(QueueKinds, <<Request("queue/status", None, 0)>>, down, link)
    /\ UNCHANGED <<focus, link, views, host, thread, timer, wanting, list, side, ghosts, ops>>

Next ==
    \/ \E t \in Thread : OpenTask(t) \/ SelectSide(t) \/ Rename(t)
    \/ CloseTask \/ Earlier \/ SaveSettings \/ More \/ ReloadQueue
    \/ \E sc \in Scope : ChooseScope(sc)
    \/ \E kind \in {"change", "remove"} : MutateQueue(kind)
    \/ \E asks \in BOOLEAN : StartSide(asks)
    \/ \E op \in SideMutations : DeleteSide(op)
    \/ \E t \in AnyThread : \/ Turn(t) \/ Item(t) \/ Interaction(t) \/ ChangeSettings(t) \/ LeaseFails(t)
                            \/ Compact(t, hi[t]) \/ Compact(t, hi[t] + 1)
    \/ QueueMoves(0) \/ QueueMoves(ops + 1)
    \/ \E p \in Thread, c \in {"none", "ready", "indeterminate"} : ChatMoves(p, c)
    \/ HostStarts \/ \E r \in work : HostAnswers(r)
    \/ ReceiveThread \/ TimerFires \/ ReceiveTasks \/ ReceiveQueue \/ ReceiveSide \/ SideReconciled
    \/ Disconnect \/ Reconnect \/ QueueTimesOut

Spec == Init /\ [][Next]_vars

-----------------------------------------------------------------------------
(***************************************************************************)
(* Properties                                                              *)
(***************************************************************************)
ThreadStatus == {"closed", "opening", "idle", "running", "waiting-input", "reconnecting", "failed"}
(* Types, and the effects an actor can have in each state *)
TypeOK ==
    /\ focus \in Focus /\ link \in {"up", "down", "ended"} /\ views \subseteq AnyThread
    /\ thread.t \in AnyThread \cup {None} /\ thread.status \in ThreadStatus
    /\ thread.fx \in {"none", "open", "close", "history"} /\ thread.history \in {"idle", "loading", "failed"}
    /\ timer \in AnyThread \cup {None} /\ wanting \in AnyThread \cup {None}
    /\ list.status \in {"loading", "ready", "paginating", "failed"} /\ DOMAIN list.tasks \subseteq Thread
    /\ queue.status \in {"loading", "ready", "mutating", "reconciling", "indeterminate"}
    /\ side.status \in {"idle", "loading", "creating", "deleting", "reconciling", "review", "failed"}
    /\ (link # "up" => up = <<>> /\ work = {} /\ down = <<>>)

(* Nothing is on its way to or from the page. *)
Quiet == link = "up" /\ up = <<>> /\ work = {} /\ down = <<>> /\ timer = None /\ wanting = None

(* A quiet page that shows a task as idle, running or waiting shows what the host has: the
   latest items without a gap, the settings, the pending interactions, and whether a turn
   runs.  Every change is either in the snapshot shown, in an event applied to it or behind a
   refresh that is still pending, whatever order answers, events and generations come in.
   (Excepted: a snapshot whose refresh or whose lease failed, which a later event may show as
   running again; and the start of the window after a compaction nobody told the page of.) *)
ThreadFresh ==
    LET s == thread.snap  IN
    Quiet /\ focus = "thread" /\ thread.status \in {"idle", "running", "waiting-input"} /\ ~thread.snap.lost
      => /\ s.settings = settings[thread.t] /\ s.inter = inter[thread.t]
         /\ (thread.status = "idle" => st[thread.t] = "idle")
         /\ s.items = Run(Head(s.items), hi[thread.t])
         /\ unseen \/ (Head(s.items) >= lo[thread.t] /\ s.cursor = (IF Head(s.items) > lo[thread.t] THEN Head(s.items) ELSE 0))

(* A list that is ready and has nothing in flight shows the tasks of its scope with the states
   and names the host has: a state that changed while a page was being read is kept beside it
   (pendingStateChanges), a name makes it read again.  (After a request that failed, only a
   complete reload counts: another page alone does not make up for it.) *)
TasksFresh ==
    Quiet /\ focus = "tasks" /\ list.status = "ready" /\ ~list.missed
      => /\ DOMAIN list.tasks \subseteq Listed(list.scope) /\ list.changes = NoTasks
         /\ \A t \in DOMAIN list.tasks : list.tasks[t] = [st |-> st[t], name |-> name[t]]

(* The queue and the side chat shown by a quiet page are the host's, unless the answer to the
   page's own mutation came after a newer event. *)
MutatorsFresh ==
    /\ (Quiet /\ focus = "queue" /\ queue.status = "ready" /\ ~queue.late => queue.item = item)
    /\ (Quiet /\ focus = "side" /\ side.status = "idle" /\ side.parent # None /\ ~side.late
          => side.chat = chat[side.parent] /\ thread.t = Selected(side))

(* The task view follows the user: an answer, a timer or a reconnection never brings back a
   task that was left. *)
ShownIsWanted == focus = "thread" /\ ~strayed => thread.t = wanted

(* An actor that waits has something to wait for: no event cancels the effect of an actor and
   leaves it loading for ever. *)
BusyIsBacked ==
    /\ ((Busy(thread) \/ thread.history = "loading") => Outstanding(ThreadKinds))
    /\ (list.flight => Outstanding({"list"}))
    /\ (focus = "queue" /\ queue.status \in {"loading", "mutating", "reconciling"} => Outstanding(QueueKinds))
    /\ (side.status = "loading" => Outstanding({"side/read"}))
    /\ (side.status \in {"creating", "deleting"} => Outstanding(SideMutations))

(* The first question of a side chat is submitted once, to the side chat of the task it was
   asked in, although it waits for the creation, the opening and an idle thread. *)
QuestionOnce ==
    \A i \in DOMAIN sent : /\ sent[i].to = Side(sent[i].asked[1])
                           /\ \A j \in DOMAIN sent : sent[i].asked = sent[j].asked => i = j
=============================================================================
