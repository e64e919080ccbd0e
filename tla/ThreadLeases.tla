---------------------------- MODULE ThreadLeases ----------------------------
(***************************************************************************)
(* ThreadLeaseManager: one shared app-server client (a lease) per task,     *)
(* created on demand, kept while somebody refers to it or the task is busy, *)
(* and disposed of when it is idle and unreferenced.                        *)
(*                                                                         *)
(* A holder is one caller of acquire or start: the view of a gateway        *)
(* session, a queue delivery, a thread operation.  Each await of the code   *)
(* separates two actions; the turns of a lease are reduced to what its     *)
(* notifications make of its state.                                        *)
(***************************************************************************)
EXTENDS Naturals, FiniteSets

CONSTANTS Tasks,            \* Codex threads
          Holders,          \* callers of acquire and start
          Starters,         \* those that call start
          TaskOf,           \* the task of a holder
          None,
          maximumLeases,
          MaxClients,       \* bound on the app-server clients ever created
          MaxFailures       \* bound on lost clients and failing calls

ASSUME HoldersAssumption ==
    Starters \subseteq Holders /\ TaskOf \in [Holders -> Tasks]

ASSUME LeaseBoundsAssumption ==
    maximumLeases \in Nat \ {0} /\ MaxClients \in Nat /\ MaxFailures \in Nat

Leases == 1 .. MaxClients

ASSUME NoneAssumption == None \notin Leases \cup Tasks

VARIABLES
    leases, creating, disposing,    \* #leases, #creating, #disposing
    starting,                       \* #starting
    closed,                         \* #closed of the manager
    phase,      \* each client: free, connecting, open, closing, gone
    task,       \* the task its lease serves (None: a provisional client)
    state,      \* #state of the lease
    refs,       \* #references: the holders that have one
    asks,       \* the interactions its broker has
    sweeps,     \* background cleanups scheduled for the lease
    broken,     \* leases whose disposer threw
    pc, at,     \* where each holder is, and the lease it was given
    awaits,     \* the lease whose disposal it waits for
    scoped,     \* the owner scope of the holder is open
    evicted,    \* history: leases lost or closed with the manager
    deleted,    \* history: leases closed by closeThread
    failures

managerVars == <<leases, creating, disposing, starting, closed>>
leaseVars   == <<phase, task, state, refs, asks, sweeps, broken>>
holderVars  == <<pc, at, awaits, scoped>>
historyVars == <<evicted, deleted, failures>>
vars        == <<managerVars, leaseVars, holderVars, historyVars>>

NoLeases == [t \in Tasks |-> None]

Init ==
    /\ leases = NoLeases /\ creating = NoLeases /\ disposing = NoLeases
    /\ starting = {} /\ closed = FALSE
    /\ phase  = [l \in Leases |-> "free"]
    /\ task   = [l \in Leases |-> None]
    /\ state  = [l \in Leases |-> "idle"]
    /\ refs   = [l \in Leases |-> {}]
    /\ asks   = [l \in Leases |-> 0]
    /\ sweeps = [l \in Leases |-> {}]
    /\ broken = {}
    /\ pc = [h \in Holders |-> "idle"]
    /\ at = [h \in Holders |-> None] /\ awaits = at
    /\ scoped = [h \in Holders |-> TRUE]
    /\ evicted = {} /\ deleted = {} /\ failures = 0

-----------------------------------------------------------------------------
(***************************************************************************)
(* Operators of the manager                                                *)
(***************************************************************************)
Entries(f) == {t \in Tasks : f[t] # None}

(* Mutant: leases that are being disposed of do not count. *)
HasCapacityIgnoringDisposal ==
    Cardinality(Entries(leases)) + Cardinality(Entries(creating))
        + Cardinality(starting) < maximumLeases

(* #assertCapacity *)
HasCapacity ==
    Cardinality(Entries(leases)) + Cardinality(Entries(creating))
        + Cardinality(Entries(disposing)) + Cardinality(starting)
            < maximumLeases

(* A client that was never used; the scope of a closed manager has none. *)
Fresh(l) == ~closed /\ phase[l] = "free"
            /\ \A m \in Leases : m < l => phase[m] # "free"

(* The bound on clients leaves one for every task that may still need one. *)
ClientsLeft(h) ==
    LET waiting == {TaskOf[x] : x \in {x \in Holders \ Starters :
                                              pc[x] = "disposal"}}
    IN  Cardinality({l \in Leases : phase[l] = "free"})
            > Cardinality(IF h \in Starters THEN waiting
                                            ELSE waiting \ {TaskOf[h]})

(* The promise a holder awaits has settled. *)
Ready(h) == \/ pc[h] = "disposal" /\ phase[awaits[h]] = "gone"
            \/ pc[h] = "attach" /\ phase[at[h]] # "connecting"

(* Continuations and cleanups are microtasks: they run before the next event of
   a socket. *)
NoMicrotasks == /\ \A h \in Holders : ~Ready(h)
                /\ \A l \in Leases : sweeps[l] = {}

Goto(h, label, l) == /\ pc' = [pc EXCEPT ![h] = label]
                     /\ at' = [at EXCEPT ![h] = l]

Fail == failures < MaxFailures /\ failures' = failures + 1

(* Mutant: references do not keep a lease. *)
DisposableUnlessBusy(l, r) ==
    phase[l] = "open" /\ state[l] = "idle" /\ asks[l] = 0

(* #disposeIfIdle, with references r. *)
Disposable(l, r) ==
    phase[l] = "open" /\ state[l] = "idle" /\ r = {} /\ asks[l] = 0

(* Mutant: an interaction is counted down although it was answered. *)
CloseLeaseCountingDown(l) == /\ phase' = [phase EXCEPT ![l] = "closing"]
                             /\ asks' = [asks EXCEPT ![l] = @ - 1]

(* ThreadLease.close: failAll, and the client begins to close. *)
CloseLease(l) == /\ phase' = [phase EXCEPT ![l] = "closing"]
                 /\ asks' = [asks EXCEPT ![l] = 0]

(* #dispose up to its await: a lease that is not the current one of its task
   has been taken care of. *)
Dispose(l) ==
    IF leases[task[l]] = l
    THEN /\ leases' = [leases EXCEPT ![task[l]] = None]
         /\ disposing' = [disposing EXCEPT ![task[l]] = l]
         /\ CloseLease(l)
    ELSE UNCHANGED <<leases, disposing, phase, asks>>

(* Mutant: the check comes before the reference is given back. *)
DisposeIfIdleBefore(l, r) ==
    IF Disposable(l, refs[l]) THEN Dispose(l)
                              ELSE UNCHANGED <<leases, disposing, phase, asks>>

DisposeIfIdle(l, r) ==
    IF Disposable(l, r) THEN Dispose(l)
                        ELSE UNCHANGED <<leases, disposing, phase, asks>>

-----------------------------------------------------------------------------
(***************************************************************************)
(* acquire                                                                 *)
(***************************************************************************)
(* #getOrCreate once no disposal is in the way. *)
GetOrCreate(h) ==
    LET t == TaskOf[h]
    IN  \/ /\ leases[t] # None
           /\ Goto(h, "attach", leases[t])
           /\ UNCHANGED <<creating, phase, task>>
        \/ /\ leases[t] = None /\ creating[t] # None
           /\ Goto(h, "attach", creating[t])
           /\ UNCHANGED <<creating, phase, task>>
        \/ /\ leases[t] = None /\ creating[t] = None /\ ~HasCapacity
           /\ Goto(h, "refused", None)
           /\ UNCHANGED <<creating, phase, task>>
        \/ /\ leases[t] = None /\ creating[t] = None /\ HasCapacity
           /\ \E l \in Leases :
                 /\ Fresh(l)
                 /\ phase' = [phase EXCEPT ![l] = "connecting"]
                 /\ task' = [task EXCEPT ![l] = t]
                 /\ creating' = [creating EXCEPT ![t] = l]
                 /\ Goto(h, "attach", l)

acquireFrame == UNCHANGED <<leases, disposing, starting, closed, state, refs,
                            asks, sweeps, broken, scoped, historyVars>>

(* Mutant: a disposal under way is not waited for. *)
MustWaitNever(t) == FALSE

MustWait(t) == disposing[t] # None

Acquire(h) ==
    /\ pc[h] = "idle" /\ h \notin Starters /\ ClientsLeft(h)
    /\ \/ /\ closed
          /\ Goto(h, "refused", None)
          /\ UNCHANGED <<creating, phase, task, awaits>>
       \/ /\ ~closed /\ MustWait(TaskOf[h])
          /\ Goto(h, "disposal", None)
          /\ awaits' = [awaits EXCEPT ![h] = disposing[TaskOf[h]]]
          /\ UNCHANGED <<creating, phase, task>>
       \/ /\ ~closed /\ ~MustWait(TaskOf[h])
          /\ GetOrCreate(h)
          /\ UNCHANGED awaits
    /\ acquireFrame

(* The disposal that acquire awaits is over. *)
AfterDisposal(h) ==
    /\ pc[h] = "disposal" /\ h \notin Starters /\ Ready(h)
    /\ awaits' = [awaits EXCEPT ![h] = None]
    /\ IF closed \/ awaits[h] \in broken
       THEN Goto(h, "refused", None) /\ UNCHANGED <<creating, phase, task>>
       ELSE GetOrCreate(h)
    /\ acquireFrame

(* #create returns: its client is connected, or it failed (which is also what
   becomes of it when the manager was closed meanwhile). *)
Connected(l) ==
    /\ NoMicrotasks
    /\ phase[l] = "connecting" /\ l \notin starting
    /\ creating' = [creating EXCEPT ![task[l]] = None]
    /\ \/ /\ ~closed
          /\ phase' = [phase EXCEPT ![l] = "open"]
          /\ leases' = [leases EXCEPT ![task[l]] = l]
          /\ UNCHANGED failures
       \/ /\ closed \/ failures < MaxFailures
          /\ failures' = IF closed THEN failures ELSE failures + 1
          /\ phase' = [phase EXCEPT ![l] = "gone"]
          /\ UNCHANGED leases
    /\ UNCHANGED <<disposing, starting, closed, task, state, refs, asks, sweeps,
                   broken, holderVars, evicted, deleted>>

(* #attachReference: the lease may have been closed since it was returned; an
   owner that has been closed gives the reference back at once. *)
Attach(h) ==
    /\ pc[h] = "attach" /\ Ready(h)
    /\ IF phase[at[h]] # "open"
       THEN /\ Goto(h, "refused", None)
            /\ UNCHANGED <<refs, leases, disposing, phase, asks>>
       ELSE IF scoped[h]
       THEN /\ refs' = [refs EXCEPT ![at[h]] = @ \cup {h}]
            /\ Goto(h, "holding", at[h])
            /\ UNCHANGED <<leases, disposing, phase, asks>>
       ELSE /\ DisposeIfIdle(at[h], refs[at[h]])
            /\ Goto(h, "refused", None)
            /\ UNCHANGED refs
    /\ UNCHANGED <<creating, starting, closed, task, state, sweeps, broken,
                   awaits, scoped, historyVars>>

(* releaseReference, called by the holder or by its closing scope.  The callers
   of start send the first turn before they release. *)
Release(h) ==
    /\ pc[h] = "holding" /\ (h \in Starters => NoMicrotasks)
    /\ refs' = [refs EXCEPT ![at[h]] = @ \ {h}]
    /\ DisposeIfIdle(at[h], refs'[at[h]])
    /\ Goto(h, IF scoped[h] THEN "idle" ELSE "refused", None)
    /\ UNCHANGED <<creating, starting, closed, task, state, sweeps, broken,
                   awaits, scoped, historyVars>>

(* The gateway session of a view is closed. *)
CloseOwner(h) ==
    /\ scoped[h] /\ h \notin Starters
    /\ scoped' = [scoped EXCEPT ![h] = FALSE]
    /\ IF pc[h] = "idle" THEN Goto(h, "refused", None)
                         ELSE UNCHANGED <<pc, at>>
    /\ UNCHANGED <<managerVars, leaseVars, awaits, historyVars>>

-----------------------------------------------------------------------------
(***************************************************************************)
(* start                                                                   *)
(***************************************************************************)
Start(h) ==
    /\ pc[h] = "idle" /\ h \in Starters /\ ClientsLeft(h)
    /\ IF closed \/ ~HasCapacity
       THEN Goto(h, "refused", None) /\ UNCHANGED <<starting, phase>>
       ELSE \E l \in Leases :
               /\ Fresh(l)
               /\ phase' = [phase EXCEPT ![l] = "connecting"]
               /\ starting' = starting \cup {l}
               /\ Goto(h, "starting", l)
    /\ UNCHANGED <<leases, creating, disposing, closed, task, state, refs, asks,
                   sweeps, broken, awaits, scoped, historyVars>>

(* The error path: the scope of the provisional client is closed, and counts
   until that is done. *)
AbandonStart(h) == /\ CloseLease(at[h])
                   /\ Goto(h, "abandoning", at[h])
                   /\ UNCHANGED <<leases, starting, task, refs>>

(* The new task gets its lease, with the client that started it. *)
BindStarted(h) ==
    LET l == at[h]
        t == TaskOf[h]
    IN  IF closed \/ leases[t] # None \/ creating[t] # None
        THEN AbandonStart(h)
        ELSE /\ phase' = [phase EXCEPT ![l] = "open"]
             /\ task' = [task EXCEPT ![l] = t]
             /\ leases' = [leases EXCEPT ![t] = l]
             /\ starting' = starting \ {l}
             /\ refs' = [refs EXCEPT ![l] = {h}]
             /\ Goto(h, "holding", l)
             /\ UNCHANGED asks

startFrame == UNCHANGED <<creating, disposing, closed, state, sweeps, broken,
                          scoped, evicted, deleted>>

(* The client is connected and initialize returned a thread id, or failed. *)
Initialized(h) ==
    /\ NoMicrotasks
    /\ pc[h] = "starting"
    /\ \/ /\ Fail /\ AbandonStart(h) /\ UNCHANGED awaits
       \/ /\ ~closed /\ disposing[TaskOf[h]] # None
          /\ Goto(h, "disposal", at[h])
          /\ awaits' = [awaits EXCEPT ![h] = disposing[TaskOf[h]]]
          /\ UNCHANGED <<phase, asks, leases, starting, task, refs, failures>>
       \/ /\ closed \/ disposing[TaskOf[h]] = None
          /\ BindStarted(h)
          /\ UNCHANGED <<failures, awaits>>
    /\ startFrame

(* The disposal that start awaited is over. *)
StartAfterDisposal(h) ==
    /\ pc[h] = "disposal" /\ h \in Starters /\ Ready(h)
    /\ IF awaits[h] \in broken THEN AbandonStart(h) ELSE BindStarted(h)
    /\ awaits' = [awaits EXCEPT ![h] = None]
    /\ UNCHANGED failures /\ startFrame

-----------------------------------------------------------------------------
(***************************************************************************)
(* The life of a lease                                                     *)
(***************************************************************************)
noteFrame == UNCHANGED <<managerVars, phase, task, refs, broken, holderVars,
                         historyVars>>

Busy(l) == IF asks[l] > 0 THEN "waiting-input" ELSE "running"

Notifications == {"turn/started", "turn/completed", "idle", "active",
                  "systemError"}

(* #updateState: the turns, and the statuses of thread/status/changed. *)
UpdatedState(l, n) ==
    CASE n = "turn/completed" -> IF asks[l] > 0 THEN "waiting-input" ELSE "idle"
      [] n = "idle"           -> "idle"
      [] n = "systemError"    -> "failed"
      [] OTHER                -> "running"

(* #notification *)
Notify(l, n) ==
    /\ NoMicrotasks /\ phase[l] = "open" /\ l \notin evicted
    /\ state' = [state EXCEPT ![l] = UpdatedState(l, n)]
    /\ sweeps' = [sweeps EXCEPT ![l] = @ \cup {"idle"}]
    /\ UNCHANGED asks /\ noteFrame

(* adoptAuthoritativeThread: a holder has read the thread; what it was told does
   not schedule a cleanup. *)
Adopt(h, status) ==
    /\ NoMicrotasks /\ pc[h] = "holding" /\ phase[at[h]] = "open"
    /\ state' = [state EXCEPT ![at[h]] =
                    CASE status = "active"      -> Busy(at[h])
                      [] status = "systemError" -> "failed"
                      [] status = "idle"        -> "idle"]
    /\ UNCHANGED <<asks, sweeps>> /\ noteFrame

(* noteTurnStarted: the response to turn/start of a holder, for a turn that is
   not known to be over. *)
NoteTurnStarted(h) ==
    /\ NoMicrotasks /\ pc[h] = "holding" /\ phase[at[h]] = "open"
    /\ state' = [state EXCEPT ![at[h]] = Busy(at[h])]
    /\ UNCHANGED <<asks, sweeps>> /\ noteFrame

(* #serverRequest: an interaction is created. *)
Ask(l) ==
    /\ NoMicrotasks /\ phase[l] = "open" /\ l \notin evicted /\ asks[l] = 0
    /\ asks' = [asks EXCEPT ![l] = 1]
    /\ state' = [state EXCEPT ![l] = "waiting-input"]
    /\ UNCHANGED sweeps /\ noteFrame

(* respond: the interaction is resolved, or sending the response failed. *)
Answer(l) ==
    /\ phase[l] = "open" /\ asks[l] = 1
    /\ asks' = [asks EXCEPT ![l] = 0]
    /\ \/ state' = [state EXCEPT ![l] = IF @ = "waiting-input" THEN "running"
                                                               ELSE @]
       \/ UNCHANGED state
    /\ sweeps' = [sweeps EXCEPT ![l] = @ \cup {"idle"}]
    /\ noteFrame

(* #clientClosed *)
Lose(l) ==
    /\ NoMicrotasks /\ phase[l] = "open" /\ l \notin evicted
    /\ Fail
    /\ evicted' = evicted \cup {l}
    /\ state' = [state EXCEPT ![l] = "failed"]
    /\ asks' = [asks EXCEPT ![l] = 0]
    /\ sweeps' = [sweeps EXCEPT ![l] = @ \cup {"lost"}]
    /\ UNCHANGED <<managerVars, phase, task, refs, broken, holderVars, deleted>>

(* Mutant: a cleanup trusts the state of the moment it was scheduled. *)
SweepUnchecked(l, why) ==
    /\ why \in sweeps[l]
    /\ sweeps' = [sweeps EXCEPT ![l] = @ \ {why}]
    /\ IF phase[l] = "open" /\ refs[l] = {}
       THEN Dispose(l) ELSE UNCHANGED <<leases, disposing, phase, asks>>
    /\ UNCHANGED <<creating, starting, closed, task, state, refs, broken,
                   holderVars, historyVars>>

(* #runBackgroundCleanup, a microtask later: #disposeIfIdle looks again, a lost
   client is disposed of whoever refers to it. *)
Sweep(l, why) ==
    /\ why \in sweeps[l]
    /\ sweeps' = [sweeps EXCEPT ![l] = @ \ {why}]
    /\ IF why = "lost" /\ phase[l] = "open"
       THEN Dispose(l) ELSE DisposeIfIdle(l, refs[l])
    /\ UNCHANGED <<creating, starting, closed, task, state, refs, broken,
                   holderVars, historyVars>>

(* Mutant: close waits for an event of the socket that a lost client has already
   had. *)
SettledUnlessLost(l) == phase[l] = "closing" /\ l \notin evicted

(* CodexAppServerClient.close returns, at once if the socket is closed. *)
Settled(l) == phase[l] = "closing"

(* The client's socket is closed: the promise of close() settles, with an error
   if a disposer threw.  Nobody looks at the state of the lease again and its
   cleanups find it closed, so both are reset. *)
Closed(l) ==
    /\ NoMicrotasks /\ Settled(l)
    /\ phase' = [phase EXCEPT ![l] = "gone"]
    /\ disposing' = [t \in Tasks |-> IF disposing[t] = l THEN None
                                                         ELSE disposing[t]]
    /\ starting' = starting \ {l}
    /\ pc' = [h \in Holders |-> IF pc[h] = "abandoning" /\ at[h] = l
                                THEN "refused" ELSE pc[h]]
    /\ \/ UNCHANGED <<broken, failures>>
       \/ Fail /\ broken' = broken \cup {l}
    /\ state' = [state EXCEPT ![l] = "idle"]
    /\ sweeps' = [sweeps EXCEPT ![l] = {}]
    /\ UNCHANGED <<leases, creating, closed, task, refs, asks, at, awaits,
                   scoped, evicted, deleted>>

(* closeThread: the task was deleted. *)
CloseThread(t) ==
    /\ leases[t] # None
    /\ leases' = [leases EXCEPT ![t] = None]
    /\ CloseLease(leases[t])
    /\ deleted' = deleted \cup {leases[t]}
    /\ UNCHANGED <<creating, disposing, starting, closed, task, state, refs,
                   sweeps, broken, holderVars, evicted, failures>>

(* The scope of the manager is closed: every client closes, nothing new is
   created. *)
CloseManager ==
    /\ ~closed /\ closed' = TRUE
    /\ leases' = NoLeases /\ disposing' = NoLeases
    /\ evicted' = evicted \cup {l \in Leases : phase[l] = "open"}
    /\ phase' = [l \in Leases |-> IF phase[l] = "open" THEN "closing"
                                                       ELSE phase[l]]
    /\ asks' = [l \in Leases |-> 0]
    /\ UNCHANGED <<creating, starting, task, state, refs, sweeps, broken,
                   holderVars, deleted, failures>>

-----------------------------------------------------------------------------
HolderStep(h) == \/ AfterDisposal(h) \/ Attach(h) \/ Initialized(h)
                 \/ StartAfterDisposal(h)

LeaseStep(l) == \/ Connected(l) \/ Closed(l)
                \/ \E why \in {"idle", "lost"} : Sweep(l, why)

States == {"idle", "running", "waiting-input", "failed"}

Next == \/ \E h \in Holders : \/ Acquire(h) \/ Start(h) \/ Release(h)
                              \/ CloseOwner(h) \/ HolderStep(h)
                              \/ NoteTurnStarted(h)
                              \/ \E s \in {"idle", "active", "systemError"} :
                                    Adopt(h, s)
        \/ \E l \in Leases : \/ LeaseStep(l) \/ Ask(l) \/ Answer(l) \/ Lose(l)
                             \/ \E n \in Notifications : Notify(l, n)
        \/ \E t \in Tasks : CloseThread(t)
        \/ CloseManager

Spec == Init /\ [][Next]_vars

(***************************************************************************)
(* Fairness: microtasks run, and the event loop comes to every socket      *)
(* event in turn however many others there are.  Nothing is assumed of the *)
(* holders, of the turns and of their users.                               *)
(***************************************************************************)
Fairness == /\ \A h \in Holders : SF_vars(HolderStep(h))
            /\ \A l \in Leases : SF_vars(LeaseStep(l))

FairSpec == Spec /\ Fairness

-----------------------------------------------------------------------------
(***************************************************************************)
(* Properties                                                              *)
(***************************************************************************)
(* The maps of the manager, the leases and the holders have their types. *)
TypeOK ==
    /\ leases \in [Tasks -> Leases \cup {None}]
    /\ creating \in [Tasks -> Leases \cup {None}]
    /\ disposing \in [Tasks -> Leases \cup {None}]
    /\ starting \subseteq Leases /\ closed \in BOOLEAN
    /\ phase \in [Leases -> {"free", "connecting", "open", "closing", "gone"}]
    /\ task \in [Leases -> Tasks \cup {None}]
    /\ state \in [Leases -> States]
    /\ refs \in [Leases -> SUBSET Holders]
    /\ asks \in [Leases -> {0, 1}]
    /\ sweeps \in [Leases -> SUBSET {"idle", "lost"}]
    /\ broken \subseteq Leases
    /\ pc \in [Holders -> {"idle", "disposal", "attach", "holding", "starting",
                           "abandoning", "refused"}]
    /\ at \in [Holders -> Leases \cup {None}]
    /\ awaits \in [Holders -> Leases \cup {None}]
    /\ scoped \in [Holders -> BOOLEAN]
    /\ evicted \subseteq Leases /\ deleted \subseteq Leases
    /\ failures \in 0 .. MaxFailures

Live(l) == phase[l] \in {"connecting", "open", "closing"}

(* A holder keeps the client it was given: acquisitions, releases, cleanups and
   disposals in any order close a referenced lease only if its client was lost,
   its task deleted or the manager closed. *)
HeldLeaseStays ==
    \A h \in Holders : pc[h] = "holding" =>
        \/ phase[at[h]] = "open" /\ h \in refs[at[h]]
        \/ at[h] \in evicted \cup deleted

(* "At most one lease per thread" (architecture.zh-CN.md, 5.1): two clients
   serve one task at a time only if one of them is being closed because the task
   was deleted or the manager closed. *)
OneClientPerTask ==
    \A l, m \in Leases :
        l # m /\ Live(l) /\ Live(m) /\ task[l] # None /\ task[l] = task[m] =>
            {l, m} \cap (deleted \cup evicted) # {}

(* No more clients than maximumLeases exist at a time, counting those that are
   still connecting or closing, except the ones of deleted tasks. *)
CapacityKept ==
    Cardinality({l \in Leases \ deleted : Live(l)}) <= maximumLeases

(* A busy lease, or one whose user was asked something, is not closed for
   idleness: not even by a cleanup that was scheduled while it was idle. *)
BusyLeaseStays ==
    \A l \in Leases :
        /\ phase[l] = "open" /\ phase'[l] = "closing"
        /\ l \notin evicted' \cup deleted'
        => state[l] = "idle" /\ asks[l] = 0 /\ refs'[l] = {}

(* ThreadLeaseManager: whoever holds a lease holds a live client, there is at most
   one per task and no more than the limit, and a busy one is never closed for
   idleness, through every order of acquisitions, cleanups and failures. *)
LeaseSafety == /\ [](HeldLeaseStays /\ OneClientPerTask /\ CapacityKept)
               /\ [][BusyLeaseStays]_vars

(* architecture.zh-CN.md, 5.1: the manager creates no client for a task before
   the task's old client has finished closing. *)
NoOverlap ==
    \A l, m \in Leases :
        l # m /\ Live(l) /\ Live(m) /\ task[l] # None => task[l] # task[m]

(* A lease that nobody needs is closed: no interleaving of acquisitions that
   fail or are abandoned leaves an idle client behind. *)
Needed(l) == ~Disposable(l, refs[l])
IdleLeaseCloses == \A l \in Leases : []<>Needed(l)

(* Every acquisition returns: nobody waits for ever for a creation or for a
   disposal. *)
Returned(h) == pc[h] \notin {"disposal", "attach", "starting", "abandoning"}
AcquisitionsReturn == \A h \in Holders : []<>Returned(h)

(***************************************************************************)
(* The inductive invariant                                                 *)
(***************************************************************************)
(* Each map of the manager has the clients in one phase, each client under the
   task it serves, and the three maps never have the same task. *)
MapsAgree ==
    /\ \A t \in Tasks :
          /\ leases[t] # None => task[leases[t]] = t /\ phase[leases[t]] = "open"
          /\ creating[t] # None =>
                /\ task[creating[t]] = t /\ phase[creating[t]] = "connecting"
                /\ creating[t] \notin starting
          /\ disposing[t] # None =>
                task[disposing[t]] = t /\ phase[disposing[t]] = "closing"
          /\ leases[t] = None \/ creating[t] = None
          /\ disposing[t] = None \/ (leases[t] = None /\ creating[t] = None)
    /\ closed => leases = NoLeases /\ disposing = NoLeases

(* A client that may serve a task is in the map its phase calls for, unless
   its task was deleted or the manager closed. *)
ClientsKnown ==
    \A l \in Leases :
        /\ phase[l] = "free" => task[l] = None
        /\ phase[l] = "open" => task[l] # None /\ leases[task[l]] = l
        /\ phase[l] = "connecting" /\ l \notin starting =>
              task[l] # None /\ creating[task[l]] = l
        /\ phase[l] = "closing" /\ l \notin starting \cup deleted /\ ~closed =>
              task[l] # None /\ disposing[task[l]] = l
        /\ l \in starting => task[l] = None /\ phase[l] \in {"connecting", "closing"}
        /\ l \in evicted \cup deleted => phase[l] \in {"open", "closing", "gone"}
        /\ l \in deleted => phase[l] \in {"closing", "gone"}
        /\ "lost" \in sweeps[l] => l \in evicted

Starting(h) == pc[h] = "starting" \/ (pc[h] = "disposal" /\ h \in Starters)

(* Where a holder is agrees with its client. *)
HolderKnown(h) ==
    /\ Starting(h) => at[h] \in starting /\ phase[at[h]] = "connecting"
    /\ pc[h] = "starting" => h \in Starters
    /\ pc[h] = "abandoning" => at[h] \in starting /\ phase[at[h]] = "closing"
    /\ pc[h] = "attach" => at[h] \in Leases \ starting /\ phase[at[h]] # "free"
    /\ pc[h] = "holding" =>
          at[h] \in Leases /\ phase[at[h]] \in {"open", "closing", "gone"}
    /\ pc[h] = "disposal" =>
          awaits[h] \in Leases /\ phase[awaits[h]] \in {"closing", "gone"}

(* A provisional client has one starter, and a reference its holder. *)
HoldersKnown ==
    /\ \A h \in Holders : HolderKnown(h)
    /\ \A h, g \in Holders : h # g /\ Starting(h) /\ Starting(g) => at[h] # at[g]
    /\ \A l \in Leases : \A h \in refs[l] : pc[h] = "holding" /\ at[h] = l

(* Who waits for a disposal waits for the one of its task.  From its end to the
   continuation nobody disposes of a lease of the task again: the task has none,
   or the one of a caller of start that has not sent its first turn. *)
Awaited(h) ==
    /\ phase[awaits[h]] = "closing" /\ ~closed => disposing[TaskOf[h]] = awaits[h]
    /\ phase[awaits[h]] = "gone" =>
          /\ disposing[TaskOf[h]] = None
          /\ leases[TaskOf[h]] # None =>
                /\ "lost" \notin sweeps[leases[TaskOf[h]]]
                /\ refs[leases[TaskOf[h]]] \cap Starters # {}

DisposalsAwaited == \A h \in Holders : pc[h] = "disposal" => Awaited(h)

LeaseInv ==
    /\ TypeOK /\ MapsAgree /\ ClientsKnown /\ HoldersKnown /\ DisposalsAwaited
    /\ HeldLeaseStays /\ OneClientPerTask /\ CapacityKept
=============================================================================
