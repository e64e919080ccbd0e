------------------------------ MODULE Threads -------------------------------
(***************************************************************************)
(* One task as the gateway sessions of the agent share it: which session   *)
(* has it open (AgentGatewaySession), where it may run (WorkspaceService)  *)
(* and what it is called (AutoTitleService).  The three meet in the lease  *)
(* of the task: views, requests and a pending title hold references to it, *)
(* and the notifications of the app-server reach them through it.          *)
(*                                                                         *)
(* How a lease is created and disposed of is the subject of ThreadLeases.  *)
(* The paths of all workspaces contain the task; the app-server sends to a *)
(* client in the order in which it acts.  The task has one turn.           *)
(***************************************************************************)
EXTENDS Naturals, Sequences, SequencesExt, FiniteSets

CONSTANTS Session, Call, Workspace,
          Name,       \* explicit names of the task
          Title,      \* the title derived from the prompt
          MaxOps,     \* bound on requests, explicit names and workspace changes
          MaxFaults,  \* bound on failed requests, failed leases and closed sessions
          None

ThreadsAssumption == None \notin Name \cup Workspace \cup {Title} /\ Title \notin Name

VARIABLES
    lease,              \* the lease of the task (0: none), a fresh number each
    viewers,            \* viewer references in it, by session
    session,            \* scope of each session
    view, held,         \* #threads, and the lease whose reference the view scope owns
    opening, closing,   \* #opening, #closing
    req,                \* requests in progress
    roots, rev, default,\* registered workspaces, authorization revision, default
    turn, name,         \* app-server: the turn, the name
    chan,               \* messages from the app-server to the lease
    pend,               \* the pending title
    explicit,           \* ghost: the last explicit name
    leases, ops, faults

sessions == <<viewers, session, view, held, opening, closing>>
workspaces == <<roots, rev, default>>
naming == <<name, pend, explicit>>
vars == <<lease, sessions, req, workspaces, turn, naming, chan, leases, ops, faults>>

NoRequest == [s |-> None, kind |-> "none", pc |-> "idle", l |-> 0, arg |-> None, rev |-> 0]
NoPending == [pc |-> "none", listed |-> FALSE, arg |-> None, conflict |-> None, unobserved |-> <<>>]

Init ==
    /\ lease = 0 /\ viewers = [s \in Session |-> 0] /\ session = [s \in Session |-> "open"]
    /\ view = [s \in Session |-> 0] /\ held = [s \in Session |-> 0]
    /\ opening = [s \in Session |-> FALSE] /\ closing = [s \in Session |-> "none"]
    /\ req = [r \in Call |-> NoRequest]
    /\ roots = Workspace /\ rev = 0 /\ default \in Workspace
    /\ turn = "none" /\ name = None /\ chan = <<>> /\ pend = NoPending /\ explicit = None
    /\ leases = 0 /\ ops = 0 /\ faults = 0

Op == ops < MaxOps /\ ops' = ops + 1
Fault == faults < MaxFaults /\ faults' = faults + 1

-----------------------------------------------------------------------------
(***************************************************************************)
(* The lease                                                               *)
(***************************************************************************)
(* Requests that hold a reference of their own *)
Holding == {r \in Call : req[r].kind = "rename" /\ req[r].pc # "acquire"}
Wanted == \/ \E s \in Session : viewers[s] > 0
          \/ pend.pc # "none" \/ Holding # {} \/ turn = "running"

(* The end of every step on an existing lease: without references and without a running
   turn it is disposed of; otherwise the app-server's messages are on their way. *)
Lease(msgs) ==
    /\ lease' = IF Wanted' THEN lease ELSE 0
    /\ chan' = IF lease' = 0 THEN <<>> ELSE chan \o msgs
    /\ UNCHANGED leases

(* #getOrCreate *)
Acquired ==
    /\ lease' = IF lease = 0 THEN leases + 1 ELSE lease
    /\ leases' = IF lease = 0 THEN leases + 1 ELSE leases
    /\ UNCHANGED chan

At(r, kinds, pc) == req[r].kind \in kinds /\ req[r].pc = pc
To(r, pc) == req' = [req EXCEPT ![r].pc = pc]
Ends(r) == req' = [req EXCEPT ![r] = NoRequest]

Issue(r, s, kind, pc, v) ==
    /\ Op /\ req[r] = NoRequest /\ session[s] = "open"
    /\ req' = [req EXCEPT ![r] = [NoRequest EXCEPT !.s = s, !.kind = kind, !.pc = pc,
                                                   !.l = view[s], !.arg = v]]
    /\ UNCHANGED <<lease, leases, chan, sessions, workspaces, turn, naming, faults>>

-----------------------------------------------------------------------------
(***************************************************************************)
(* Gateway sessions                                                        *)
(***************************************************************************)
(* Mutant: an open does not wait for a close. *)
OpensAtOnce(s) == TRUE
(* No close is in progress. *)
Reopenable(s) == closing[s] = "none"

(* openThread: after a close, merged with an open in progress, or the view there is;
   otherwise a new view (a stale one is dropped first). *)
OpenThread(r) ==
    LET s == req[r].s IN
    /\ At(r, {"open"}, "start") /\ Reopenable(s)
    /\ IF opening[s] THEN To(r, "join") /\ UNCHANGED sessions
       ELSE IF view[s] # 0 /\ view[s] = lease
       THEN req' = [req EXCEPT ![r].pc = "read", ![r].l = lease] /\ UNCHANGED sessions
       ELSE /\ opening' = [opening EXCEPT ![s] = TRUE] /\ To(r, "join")
            /\ view' = [view EXCEPT ![s] = 0]
            /\ held' = [held EXCEPT ![s] = IF @ = lease THEN @ ELSE 0]
            /\ UNCHANGED <<viewers, session, closing>>
    /\ UNCHANGED <<lease, leases, chan, workspaces, turn, naming, ops, faults>>

Joined(s) == {r \in Call : At(r, {"open"}, "join") /\ req[r].s = s}

(* Mutant: a reference whose owner is gone stays. *)
AttachedAnyway(s) == TRUE
(* attachReference: the reference is given back when the scope of its owner is closed. *)
Attached(s) == session[s] = "open"

(* #openThread returns *)
Opened(s) ==
    /\ opening[s] /\ \E r \in Joined(s) : TRUE
    /\ opening' = [opening EXCEPT ![s] = FALSE]
    /\ IF Attached(s)
       THEN /\ Acquired
            /\ viewers' = [viewers EXCEPT ![s] = @ + 1]
            /\ view' = [view EXCEPT ![s] = lease'] /\ held' = [held EXCEPT ![s] = lease']
            /\ req' = [r \in Call |-> IF r \in Joined(s)
                         THEN [req[r] EXCEPT !.pc = "read", !.l = lease'] ELSE req[r]]
            /\ UNCHANGED <<session, closing>>
       ELSE /\ req' = [r \in Call |-> IF r \in Joined(s) THEN NoRequest ELSE req[r]]
            /\ UNCHANGED <<lease, leases, chan, viewers, session, view, held, closing>>
    /\ UNCHANGED <<workspaces, turn, naming, ops, faults>>

OpenFails(s) ==
    /\ Fault /\ opening[s] /\ opening' = [opening EXCEPT ![s] = FALSE]
    /\ req' = [r \in Call |-> IF r \in Joined(s) THEN NoRequest ELSE req[r]]
    /\ UNCHANGED <<lease, leases, chan, viewers, session, view, held, closing, workspaces,
                   turn, naming, ops>>

(* ThreadService.open; when it fails the handler closes the view again. *)
ReadThread(r) ==
    /\ At(r, {"open"}, "read")
    /\ \/ req[r].l = lease /\ roots # {} /\ Ends(r) /\ UNCHANGED faults
       \/ req[r].l # lease /\ To(r, "undo") /\ UNCHANGED faults
       \/ roots = {} /\ To(r, "undo") /\ UNCHANGED faults
       \/ Fault /\ To(r, "undo")
    /\ UNCHANGED <<lease, leases, chan, sessions, workspaces, turn, naming, ops>>

(* closeThread, merged with a close in progress; an open in progress is awaited. *)
CloseThread(r) ==
    LET s == req[r].s IN
    /\ At(r, {"close"}, "start") \/ At(r, {"open"}, "undo")
    /\ IF closing[s] # "none" THEN To(r, "closing") /\ UNCHANGED sessions
       ELSE IF opening[s]
       THEN /\ closing' = [closing EXCEPT ![s] = "wait"] /\ To(r, "closing")
            /\ UNCHANGED <<viewers, session, view, held, opening>>
       ELSE IF view[s] = 0 THEN Ends(r) /\ UNCHANGED sessions
       ELSE /\ closing' = [closing EXCEPT ![s] = "scope"] /\ To(r, "closing")
            /\ view' = [view EXCEPT ![s] = 0]
            /\ UNCHANGED <<viewers, session, held, opening>>
    /\ UNCHANGED <<lease, leases, chan, workspaces, turn, naming, ops, faults>>

ClosingProceeds(s) ==
    /\ closing[s] = "wait" /\ ~opening[s]
    /\ closing' = [closing EXCEPT ![s] = "scope"] /\ view' = [view EXCEPT ![s] = 0]
    /\ UNCHANGED <<lease, leases, chan, viewers, session, held, opening, req, workspaces, turn,
                   naming, ops, faults>>

(* The view scope of the session is closed, once. *)
ReleaseView(s) ==
    /\ viewers' = [viewers EXCEPT ![s] = IF held[s] = lease /\ lease # 0 THEN @ - 1 ELSE @]
    /\ held' = [held EXCEPT ![s] = 0]

ClosingEnds(s) ==
    /\ closing[s] = "scope" /\ ReleaseView(s)
    /\ closing' = [closing EXCEPT ![s] = "none"]
    /\ req' = [r \in Call |-> IF req[r].s = s /\ req[r].pc = "closing" THEN NoRequest
                                 ELSE req[r]]
    /\ UNCHANGED <<session, view, opening, workspaces, turn, naming, ops, faults>>
    /\ Lease(<<>>)

(* The connection ends: the scope of the session is aborted, then disposed of. *)
SessionCloses(s) ==
    /\ Fault /\ session[s] = "open" /\ session' = [session EXCEPT ![s] = "closing"]
    /\ UNCHANGED <<lease, leases, chan, viewers, view, held, opening, closing, req, workspaces,
                   turn, naming, ops>>

SessionDisposed(s) ==
    /\ session[s] = "closing" /\ session' = [session EXCEPT ![s] = "closed"]
    /\ ReleaseView(s) /\ view' = [view EXCEPT ![s] = 0]
    /\ UNCHANGED <<opening, closing, req, workspaces, turn, naming, ops, faults>>
    /\ Lease(<<>>)

-----------------------------------------------------------------------------
(***************************************************************************)
(* Workspaces                                                              *)
(***************************************************************************)
AddWorkspace(w) ==
    /\ Op /\ w \notin roots /\ roots' = roots \cup {w} /\ rev' = rev + 1
    /\ default' = IF default = None THEN w ELSE default
    /\ UNCHANGED <<lease, leases, chan, sessions, req, turn, naming, faults>>

(* Mutant: the default stays. *)
DefaultKept(w) == default
(* The default after a workspace is removed: the first of the others *)
DefaultWithout(w) ==
    IF default # w THEN default
    ELSE IF roots = {w} THEN None ELSE CHOOSE x \in roots \ {w} : TRUE

(* Neither a queued message nor a side chat needs the workspace (QueueDelivery and
   SideChats check that refusal). *)
RemoveWorkspace(w) ==
    /\ Op /\ w \in roots /\ roots' = roots \ {w} /\ rev' = rev + 1
    /\ default' = DefaultWithout(w)
    /\ UNCHANGED <<lease, leases, chan, sessions, req, turn, naming, faults>>

(* setDefault, and an update of the preferences that names a workspace *)
SetDefault(w) ==
    /\ Op /\ w \in roots /\ default' = w
    /\ UNCHANGED <<lease, leases, chan, sessions, req, roots, rev, turn, naming, faults>>

(* resolve: the roots are read, the path is resolved in them, and the answer stands if
   the revision is still the same. *)
Snapshot(r) ==
    /\ At(r, {"turn", "rename"}, "path") /\ req[r].l = lease
    /\ IF roots # {} THEN req' = [req EXCEPT ![r].pc = "recheck", ![r].rev = rev]
       ELSE Ends(r)
    /\ UNCHANGED <<sessions, workspaces, turn, naming, ops, faults>>
    /\ Lease(<<>>)

(* Mutant: the first reading is the answer. *)
TrustsSnapshot(r) == TRUE
Unchanged(r) == req[r].rev = rev

Recheck(r) ==
    /\ At(r, {"turn", "rename"}, "recheck") /\ req[r].l = lease
    /\ To(r, IF Unchanged(r) THEN "act" ELSE "path")
    /\ UNCHANGED <<lease, leases, chan, sessions, workspaces, turn, naming, ops, faults>>

-----------------------------------------------------------------------------
(***************************************************************************)
(* Titles                                                                  *)
(***************************************************************************)
Finishing == pend.pc \in {"reading", "read", "writing", "written"}
Drop == pend' = NoPending

(* schedule *)
Schedule(n) ==
    pend' = IF n = None /\ pend.pc = "none"
            THEN [NoPending EXCEPT !.pc = "waiting", !.listed = TRUE] ELSE pend

(* turnStart reads the task, resolves its path and starts a turn; a title is scheduled
   when the task had no name. *)
SynchronizeTurn(r) ==
    /\ At(r, {"turn"}, "sync") /\ req[r].l = lease /\ lease # 0
    /\ IF turn = "none" THEN req' = [req EXCEPT ![r].pc = "path", ![r].arg = name] ELSE Ends(r)
    /\ UNCHANGED <<lease, leases, chan, sessions, workspaces, turn, naming, ops, faults>>

TurnStart(r) ==
    /\ At(r, {"turn"}, "act") /\ req[r].l = lease /\ turn = "none"
    /\ turn' = "running" /\ Schedule(req[r].arg) /\ Ends(r)
    /\ UNCHANGED <<sessions, workspaces, name, explicit, ops, faults>>
    /\ Lease(<<>>)

TurnRefused(r) ==
    /\ At(r, {"turn"}, "act") /\ turn # "none" /\ Ends(r)
    /\ UNCHANGED <<lease, leases, chan, sessions, workspaces, turn, naming, ops, faults>>

TurnCompletes(status) ==
    /\ turn = "running" /\ turn' = "done"
    /\ UNCHANGED <<sessions, req, workspaces, naming, ops, faults>>
    /\ Lease(<<[t |-> status, n |-> None]>>)

(* Another client names the task. *)
OthersRename(n) ==
    /\ Op /\ name' = n /\ explicit' = n
    /\ chan' = IF lease = 0 THEN chan ELSE Append(chan, [t |-> "name", n |-> n])
    /\ UNCHANGED <<lease, leases, sessions, req, workspaces, turn, pend, faults>>

(* The app-server handles the request of the title service. *)
ServerReads ==
    /\ pend.pc = "reading" /\ pend' = [pend EXCEPT !.pc = "read"]
    /\ chan' = Append(chan, [t |-> "answer", n |-> name])
    /\ UNCHANGED <<lease, leases, sessions, req, workspaces, turn, name, explicit, ops, faults>>

ServerNames ==
    /\ pend.pc = "writing" /\ pend' = [pend EXCEPT !.pc = "written"] /\ name' = pend.arg
    /\ LET told == [t |-> "name", n |-> pend.arg]
           answer == [t |-> "answer", n |-> None]
       IN chan' \in {chan \o <<told, answer>>, chan \o <<answer, told>>}
    /\ UNCHANGED <<lease, leases, sessions, req, workspaces, turn, explicit, ops, faults>>

(* writePendingName *)
Write(n) == pend' = [pend EXCEPT !.pc = "writing", !.arg = n, !.unobserved = Append(@, n)]

(* Mutant: an explicit name is noticed only before the title is written. *)
ConflictIgnored(n) == pend
(* observe, while the service finishes: the name to restore *)
Conflict(n) == IF n = Title THEN pend ELSE [pend EXCEPT !.conflict = n]

(* observe: a name *)
ObserveName(n) ==
    IF ~pend.listed THEN UNCHANGED pend
    ELSE IF \E i \in DOMAIN pend.unobserved : pend.unobserved[i] = n
    THEN pend' = [pend EXCEPT !.unobserved = RemoveFirst(@, n)]
    ELSE IF Finishing THEN pend' = Conflict(n)
    ELSE Drop

(* finish goes on with an answer, unless it was cancelled: a task with a name keeps it, a
   name observed meanwhile is restored until it stays. *)
FinishContinues(n) ==
    IF ~pend.listed THEN Drop
    ELSE IF pend.pc = "read"
    THEN IF n # None \/ pend.conflict # None THEN Drop ELSE Write(Title)
    ELSE IF pend.conflict \in {None, pend.arg} THEN Drop ELSE Write(pend.conflict)

(* The lease takes the next message. *)
Observe ==
    /\ chan # <<>>
    /\ LET m == Head(chan) IN
       CASE m.t = "name" -> ObserveName(m.n)
         [] m.t = "completed" -> IF pend.listed /\ pend.pc = "waiting"
                                 THEN pend' = [pend EXCEPT !.pc = "reading"] ELSE UNCHANGED pend
         [] m.t = "failed" -> IF pend.listed /\ pend.pc = "waiting" THEN Drop ELSE UNCHANGED pend
         [] m.t = "answer" -> FinishContinues(m.n)
    /\ UNCHANGED <<leases, sessions, req, workspaces, turn, name, explicit, ops, faults>>
    /\ lease' = IF Wanted' THEN lease ELSE 0
    /\ chan' = IF lease' = 0 THEN <<>> ELSE Tail(chan)

(* rename: a reference, the workspace, then renameManually *)
RenameAcquires(r) ==
    /\ At(r, {"rename"}, "acquire") /\ Acquired
    /\ req' = [req EXCEPT ![r].pc = "path", ![r].l = lease']
    /\ UNCHANGED <<sessions, workspaces, turn, naming, ops, faults>>

(* cancel: a title that is being written is awaited *)
Cancel(r) ==
    /\ At(r, {"rename"}, "act") /\ req[r].l = lease
    /\ IF pend.listed /\ Finishing
       THEN pend' = [pend EXCEPT !.listed = FALSE] /\ To(r, "await")
       ELSE /\ IF pend.listed THEN Drop ELSE UNCHANGED pend
            /\ To(r, "set")
    /\ UNCHANGED <<lease, leases, chan, sessions, workspaces, turn, name, explicit, ops, faults>>

CancelAwaited(r) ==
    /\ At(r, {"rename"}, "await") /\ pend.pc = "none" /\ To(r, "set")
    /\ UNCHANGED <<lease, leases, chan, sessions, workspaces, turn, naming, ops, faults>>

SetName(r) ==
    /\ At(r, {"rename"}, "set") /\ req[r].l = lease
    /\ name' = req[r].arg /\ explicit' = req[r].arg /\ Ends(r)
    /\ UNCHANGED <<sessions, workspaces, turn, pend, ops, faults>>
    /\ Lease(<<[t |-> "name", n |-> req[r].arg]>>)

(* The client of the lease fails: everybody who uses it is told, nothing is finished. *)
LeaseFails ==
    /\ Fault /\ lease # 0
    /\ lease' = 0 /\ chan' = <<>> /\ pend' = NoPending
    /\ viewers' = [s \in Session |-> 0]
    /\ UNCHANGED <<leases, session, view, held, opening, closing, req, workspaces, turn, name,
                   explicit, ops>>

(* A request on a lease that has been closed fails. *)
RequestFails(r) ==
    /\ req[r].kind \in {"turn", "rename"} /\ req[r].pc # "acquire" /\ req[r].l # lease
    /\ Ends(r)
    /\ UNCHANGED <<lease, leases, chan, sessions, workspaces, turn, naming, ops, faults>>

-----------------------------------------------------------------------------
Next ==
    \/ \E r \in Call :
          \/ \E s \in Session :
                \/ Issue(r, s, "open", "start", None) \/ Issue(r, s, "close", "start", None)
                \/ view[s] # 0 /\ Issue(r, s, "turn", "sync", None)
                \/ \E n \in Name : Issue(r, s, "rename", "acquire", n)
          \/ OpenThread(r) \/ ReadThread(r) \/ CloseThread(r) \/ Snapshot(r) \/ Recheck(r)
          \/ SynchronizeTurn(r) \/ TurnStart(r) \/ TurnRefused(r) \/ RenameAcquires(r)
          \/ Cancel(r) \/ CancelAwaited(r) \/ SetName(r) \/ RequestFails(r)
    \/ \E s \in Session :
          \/ Opened(s) \/ OpenFails(s) \/ ClosingProceeds(s) \/ ClosingEnds(s)
          \/ SessionCloses(s) \/ SessionDisposed(s)
    \/ \E w \in Workspace : AddWorkspace(w) \/ RemoveWorkspace(w) \/ SetDefault(w)
    \/ \E status \in {"completed", "failed"} : TurnCompletes(status)
    \/ \E n \in Name : OthersRename(n)
    \/ ServerReads \/ ServerNames \/ Observe \/ LeaseFails

Spec == Init /\ [][Next]_vars

-----------------------------------------------------------------------------
(***************************************************************************)
(* Properties                                                              *)
(***************************************************************************)
(* The variables have their types, and the default workspace is a registered one as
   long as there is one (WorkspaceRepository). *)
TypeOK ==
    /\ lease \in 0 .. leases /\ view \in [Session -> 0 .. leases]
    /\ pend.conflict \in Name \cup {None} /\ name \in Name \cup {Title, None}
    /\ IF roots = {} THEN default = None ELSE default \in roots

(* However opens and closes of a session overlap, it holds one reference to the lease
   at most, and the view it has holds one: the lease is never closed under an open view
   and no reference is left that nobody will give back (openThread, closeThread). *)
OneReference ==
    \A s \in Session : /\ viewers[s] <= 1
                       /\ view[s] # 0 /\ view[s] = lease => viewers[s] = 1

(* A session that has ended keeps nothing alive: once it is disposed of and its requests
   are over, no reference of it is left (#attachReference, Scope.close). *)
EndedHoldsNothing ==
    \A s \in Session :
        session[s] = "closed" /\ (\A r \in Call : req[r].s # s) => viewers[s] = 0

(* A turn or a new name is only sent for a task whose path was authorized when it was
   resolved: the last resolution ended with the roots that it had read (resolve). *)
ResolvedIsAuthorized ==
    \A r \in Call : req[r].pc = "recheck" /\ req'[r].pc = "act" => roots # {}

(* The derived title never stands in the place of an explicit name once the service is
   and the renames are done and no request or lease has failed (observe, finish,
   renameManually). *)
TitleYields ==
    faults = 0 /\ pend.pc = "none" /\ Holding = {} /\ explicit # None => name # Title

(* Any explicit name wins: the task keeps the last name somebody gave it. *)
ExplicitNameWins ==
    faults = 0 /\ pend.pc = "none" /\ Holding = {} /\ explicit # None => name = explicit
=============================================================================
