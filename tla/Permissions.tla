---------------------------- MODULE Permissions -----------------------------
(***************************************************************************)
(* The permissions of one task (sandbox and approval policy).  The         *)
(* app-server applies them, the state file keeps them for the next resume, *)
(* the agent shows them to its pages, and the official terminal reaches    *)
(* the app-server through the permission proxy of ce tui, which restores   *)
(* what is stored and records what the terminal changes.  The agent and    *)
(* the proxy are processes of their own; a lock per task orders them, a    *)
(* revision orders the pages, and a generation tells late observations.    *)
(*                                                                         *)
(* A permission is one value; fields that a request leaves out keep what   *)
(* they were.  A request that fails may have had its effect.  A task is    *)
(* known to others once it has a turn: only then can it be resumed.        *)
(***************************************************************************)
EXTENDS Naturals, FiniteSets

CONSTANTS Page,       \* pages served by the agent
          Perm,       \* permissions
          MaxOps,     \* bound on operations of pages and of the terminal
          MaxFaults,  \* bound on crashes, lost answers and failed transactions
          None

PermissionsAssumption == None \notin Perm /\ {MaxOps, MaxFaults} \subseteq Nat

VARIABLES
    thread, perm,     \* app-server: the task and the permissions in effect
    orphan,           \* a request whose sender is gone, still with the app-server
    row, obs, gen,    \* state file: stored permissions, observation, generation
    lock,             \* mutation lock of the task
    resumed, cached,  \* agent: the lease has resumed the task, its settings
    view,             \* what each page was told last
    op,               \* the operation of each page
    tui,              \* the request of the terminal, in the proxy
    told,             \* a failure, or a vanished sender, since the last request in the fence
    ops, faults

server == <<thread, perm, orphan>>
store == <<row, obs, gen>>
agent == <<resumed, cached, view, op>>
bounds == <<ops, faults>>
vars == <<server, store, lock, agent, tui, told, bounds>>

NoRow == [rev |-> 0, perm |-> None, by |-> None]
NoView == [rev |-> 0, perm |-> None]
NoOp == [kind |-> "none", pc |-> "idle", stored |-> NoRow, arg |-> None]
NoRequest == [kind |-> "none", pc |-> "idle", gen |-> 0, want |-> None, got |-> None]

Init ==
    /\ thread = "none" /\ perm = None /\ orphan = None
    /\ row = NoRow /\ obs = 0 /\ gen = 0 /\ lock = None
    /\ resumed = FALSE /\ cached = None
    /\ view = [p \in Page |-> NoView] /\ op = [p \in Page |-> NoOp]
    /\ tui = NoRequest /\ told = FALSE /\ ops = 0 /\ faults = 0

Fault == faults < MaxFaults /\ faults' = faults + 1

-----------------------------------------------------------------------------
(***************************************************************************)
(* State file transactions (ThreadSettingsRepository)                      *)
(***************************************************************************)
(* Every change takes the next generation and marks the task with it. *)
Observed == gen' = gen + 1 /\ obs' = gen + 1

(* save: compare and set *)
Current(expected) == row.rev = expected
Save(expected, v) ==
    /\ Current(expected)
    /\ row' = [rev |-> expected + 1, perm |-> v, by |-> "agent"] /\ Observed

Remove == row' = NoRow /\ Observed

(* Mutant: an observation is recorded whenever it arrives. *)
NeverLate(g) == FALSE

(* saveObserved: unless the task has been marked since *)
Late(g) == obs > g
SaveObserved(g, v) ==
    IF Late(g) THEN UNCHANGED store
    ELSE /\ obs' = g /\ row' = [rev |-> row.rev + 1, perm |-> v, by |-> "tui"]
         /\ UNCHANGED gen

-----------------------------------------------------------------------------
(***************************************************************************)
(* Pages: ThreadService and ThreadSessionCoordinator                       *)
(***************************************************************************)
To(p, pc) == op' = [op EXCEPT ![p].pc = pc]
Ends(p) == op' = [op EXCEPT ![p] = NoOp]
At(p, pc) == op[p].pc = pc

Begin(p, kind, pc, v) ==
    /\ ops < MaxOps /\ ops' = ops + 1 /\ At(p, "idle")
    /\ op' = [op EXCEPT ![p] = [kind |-> kind, pc |-> pc, stored |-> NoRow, arg |-> v]]
    /\ UNCHANGED <<server, store, lock, resumed, cached, view, tui, told, faults>>

BeginOpen(p) == thread \in {"alive", "deleted"} /\ Begin(p, "open", "lock", None)
BeginUpdate(p, v) == view[p] # NoView /\ Begin(p, "update", "lock", v)
BeginDelete(p) == thread \in {"alive", "deleted"} /\ Begin(p, "delete", "request", None)
BeginStart(p, v) == thread = "none" /\ Begin(p, "start", "request", v)

(* The operation fails and its page is told. *)
Fails(p) ==
    /\ Ends(p) /\ told' = TRUE
    /\ lock' = IF lock = p THEN None ELSE lock

(* Mutant: the lock orders the pages only. *)
FreeOfPages == lock \notin Page

(* acquireMutation *)
LockFree == lock = None

(* #withMutation; then what is stored is read, and an update must come from it. *)
AcquireMutation(p) ==
    /\ At(p, "lock") /\ LockFree /\ lock' = p /\ To(p, "read")
    /\ UNCHANGED <<server, store, resumed, cached, view, tui, told, bounds>>

Expected(p) == op[p].kind = "update" => row.rev = view[p].rev

ReadStored(p) ==
    /\ At(p, "read")
    /\ IF Expected(p)
       THEN /\ op' = [op EXCEPT ![p].stored = row,
                                ![p].pc = IF resumed THEN "resumed" ELSE "resume"]
            /\ UNCHANGED lock
       ELSE Ends(p) /\ lock' = None
    /\ UNCHANGED <<server, store, resumed, cached, view, tui, told, bounds>>

(* Mutant: a resume leaves the permissions to the app-server. *)
NothingRestored(p) == perm

(* What thread/resume applies: the permissions it carries, or none. *)
Restored(p) == IF op[p].stored.perm = None THEN perm ELSE op[p].stored.perm

(* thread/resume with the stored permissions.  An update keeps its result only when it
   succeeds. *)
Resume(p) ==
    /\ At(p, "resume") /\ thread = "alive"
    /\ perm' = Restored(p) /\ To(p, "resumed") /\ told' = FALSE
    /\ IF op[p].kind = "open" THEN cached' = Restored(p) /\ resumed' = TRUE
       ELSE UNCHANGED <<resumed, cached>>
    /\ UNCHANGED <<thread, orphan, store, lock, view, tui, bounds>>

(* Mutant: an open task is shown as the lease remembers it. *)
CachedOnly(p) == cached

(* mergeStoredThreadPermissions *)
Merged(p) == IF op[p].stored.perm = None THEN cached ELSE op[p].stored.perm

OpenReturns(p) ==
    /\ At(p, "resumed") /\ op[p].kind = "open" /\ thread = "alive"
    /\ cached' = Merged(p)
    /\ view' = [view EXCEPT ![p] = [rev |-> op[p].stored.rev, perm |-> Merged(p)]]
    /\ Ends(p) /\ lock' = None
    /\ UNCHANGED <<server, store, resumed, tui, told, bounds>>

(* thread/settings/update *)
SetAtServer(p) ==
    /\ At(p, "resumed") /\ op[p].kind = "update" /\ thread = "alive"
    /\ perm' = op[p].arg /\ To(p, "save") /\ told' = FALSE
    /\ UNCHANGED <<thread, orphan, store, lock, resumed, cached, view, tui, bounds>>

SaveSettings(p) ==
    /\ At(p, "save")
    /\ Save(op[p].stored.rev, op[p].arg)
    /\ resumed' = TRUE /\ cached' = op[p].arg /\ Ends(p) /\ lock' = None
    /\ view' = [view EXCEPT ![p] = [rev |-> op[p].stored.rev + 1, perm |-> op[p].arg]]
    /\ UNCHANGED <<server, tui, told, bounds>>

(* The revision has changed in spite of the lock. *)
SaveConflicts(p) ==
    /\ At(p, "save") /\ ~Current(op[p].stored.rev) /\ Fails(p)
    /\ UNCHANGED <<server, store, resumed, cached, view, tui, bounds>>

(* The task is gone: requests about it are refused. *)
Refused(p) ==
    /\ op[p].pc \in {"resume", "resumed"} \/ (At(p, "request") /\ op[p].kind = "delete")
    /\ thread # "alive" /\ Fails(p)
    /\ UNCHANGED <<server, store, resumed, cached, view, tui, bounds>>

(* delete: the app-server first, then the stored settings, without the lock *)
DeleteAtServer(p) ==
    /\ At(p, "request") /\ op[p].kind = "delete" /\ thread = "alive"
    /\ thread' = "deleted" /\ To(p, "remove")
    /\ UNCHANGED <<perm, orphan, store, lock, resumed, cached, view, tui, told, bounds>>

RemoveSettings(p) ==
    /\ At(p, "remove") /\ Remove /\ Ends(p)
    /\ resumed' = FALSE /\ cached' = None
    /\ UNCHANGED <<server, lock, view, tui, told, bounds>>

(* start: the task exists before its settings are stored; when the first turn is
   refused they are removed again. *)
StartAtServer(p) ==
    /\ At(p, "request") /\ op[p].kind = "start" /\ thread = "none"
    /\ thread' = "agentNew" /\ perm' = op[p].arg /\ To(p, "remember")
    /\ UNCHANGED <<orphan, store, lock, resumed, cached, view, tui, told, bounds>>

(* Another task was started meanwhile: it is not this one. *)
StartElsewhere(p) ==
    /\ At(p, "request") /\ op[p].kind = "start" /\ thread # "none" /\ Ends(p)
    /\ UNCHANGED <<server, store, lock, resumed, cached, view, tui, told, bounds>>

RememberStarted(p) ==
    /\ At(p, "remember") /\ Save(0, op[p].arg)
    /\ resumed' = TRUE /\ cached' = op[p].arg /\ To(p, "turn")
    /\ UNCHANGED <<server, lock, view, tui, told, bounds>>

FirstTurn(p) ==
    /\ At(p, "turn")
    /\ \/ thread' = "alive" /\ Ends(p)
       \/ thread' = "deleted" /\ To(p, "remove")
    /\ UNCHANGED <<perm, orphan, store, lock, resumed, cached, view, tui, told, bounds>>

(* A lease without references is disposed of; the next one resumes again. *)
LeaseCloses ==
    /\ resumed /\ \A p \in Page : At(p, "idle") \/ At(p, "lock") \/ At(p, "request")
    /\ resumed' = FALSE /\ cached' = None
    /\ UNCHANGED <<server, store, lock, view, op, tui, told, bounds>>

(* A request fails, with its effect or without; a transaction fails; the agent is
   killed, and every operation with it. *)
RequestLost(p) ==
    /\ Fault /\ op[p].pc \in {"resume", "resumed", "save", "remember", "remove"}
    /\ op[p].pc = "resumed" => op[p].kind = "update"
    /\ perm' \in {perm} \cup (CASE At(p, "resume") /\ thread = "alive" -> {Restored(p)}
                             [] At(p, "resumed") /\ thread = "alive" -> {op[p].arg}
                             [] OTHER -> {})
    /\ Fails(p)
    /\ UNCHANGED <<thread, orphan, store, resumed, cached, view, tui, ops>>

AgentCrashes ==
    /\ Fault /\ \E p \in Page : ~At(p, "idle")
    /\ op' = [p \in Page |-> NoOp] /\ view' = [p \in Page |-> NoView]
    /\ lock' = IF lock \in Page THEN None ELSE lock
    /\ resumed' = FALSE /\ cached' = None /\ told' = TRUE
    /\ UNCHANGED <<server, store, tui, ops>>

-----------------------------------------------------------------------------
(***************************************************************************)
(* The terminal, through the permission proxy                              *)
(***************************************************************************)
TuiAt(kinds, pc) == tui.kind \in kinds /\ tui.pc = pc
Fenced == {"resume", "update", "delete"}

(* A request of the terminal; what it says of permissions in a resume is stripped. *)
TuiRequest(kind, v) ==
    /\ ops < MaxOps /\ ops' = ops + 1 /\ tui.pc = "idle"
    /\ IF kind = "start" THEN thread = "none" ELSE thread \in {"alive", "deleted"}
    /\ tui' = [NoRequest EXCEPT !.kind = kind, !.got = v,
                                !.pc = IF kind \in Fenced THEN "lock" ELSE "observe"]
    /\ UNCHANGED <<server, store, lock, agent, told, faults>>

TuiAcquires ==
    /\ TuiAt(Fenced, "lock") /\ LockFree /\ lock' = "tui"
    /\ tui' = [tui EXCEPT !.pc = IF tui.kind = "delete" THEN "sent" ELSE "observe"]
    /\ UNCHANGED <<server, store, agent, told, bounds>>

(* beginObservation: the task is marked when it is known *)
TuiObserves ==
    /\ tui.pc = "observe" /\ gen' = gen + 1
    /\ obs' = IF tui.kind = "start" THEN obs ELSE gen + 1
    /\ tui' = [tui EXCEPT !.gen = gen + 1,
                          !.pc = IF tui.kind = "resume" THEN "prepare" ELSE "sent"]
    /\ UNCHANGED <<server, row, lock, agent, told, bounds>>

(* applyToResume *)
TuiPrepares ==
    /\ tui.pc = "prepare" /\ tui' = [tui EXCEPT !.want = row.perm, !.pc = "sent"]
    /\ UNCHANGED <<server, store, lock, agent, told, bounds>>

(* The app-server answers.  A resume may apply the defaults of the terminal in spite
   of what it carries. *)
TuiAnswered ==
    /\ tui.pc = "sent"
    /\ \/ /\ tui.kind = "start" /\ thread = "none"
          /\ thread' = "tuiNew" /\ perm' = tui.got
          /\ tui' = [tui EXCEPT !.pc = "persist"]
       \/ /\ tui.kind = "resume" /\ thread = "alive" /\ UNCHANGED thread
          /\ perm' \in IF tui.want = None THEN {perm} ELSE Perm
          /\ tui' = [tui EXCEPT !.got = perm', !.pc = "repair"]
       \/ /\ tui.kind = "update" /\ thread = "alive" /\ UNCHANGED thread
          /\ perm' = tui.got /\ tui' = [tui EXCEPT !.pc = "persist"]
       \/ /\ tui.kind = "delete" /\ thread = "alive"
          /\ thread' = "deleted" /\ tui' = [tui EXCEPT !.pc = "persist"] /\ UNCHANGED perm
       \/ /\ IF tui.kind = "start" THEN thread # "none" ELSE thread # "alive"
          /\ tui' = [tui EXCEPT !.pc = "release"] /\ UNCHANGED <<thread, perm>>
    /\ told' = (told /\ (thread # "alive" \/ tui.kind = "start"))
    /\ UNCHANGED <<orphan, store, lock, agent, bounds>>

(* resumeThreadSettingsRepair and claimThreadPermissionRepair: a resume that came out
   differently is repaired, unless the task has been marked since. *)
TuiClaimsRepair ==
    /\ tui.pc = "repair"
    /\ IF tui.want \notin {None, tui.got} /\ obs = tui.gen
       THEN /\ Observed /\ tui' = [tui EXCEPT !.gen = gen + 1, !.pc = "update"]
       ELSE tui' = [tui EXCEPT !.pc = "persist"] /\ UNCHANGED <<obs, gen>>
    /\ UNCHANGED <<server, row, lock, agent, told, bounds>>

(* requestUpstream: the repair itself *)
TuiRepairs ==
    /\ tui.pc = "update"
    /\ IF thread = "alive"
       THEN /\ perm' = tui.want /\ UNCHANGED told
            /\ tui' = [tui EXCEPT !.got = tui.want, !.pc = "persist"]
       ELSE tui' = [tui EXCEPT !.pc = "release"] /\ told' = TRUE /\ UNCHANGED perm
    /\ UNCHANGED <<thread, orphan, store, lock, agent, bounds>>

TuiPersists ==
    /\ tui.pc = "persist" /\ tui' = [tui EXCEPT !.pc = "release"]
    /\ IF tui.kind = "delete" THEN Remove ELSE SaveObserved(tui.gen, tui.got)
    /\ UNCHANGED <<server, lock, agent, told, bounds>>

TuiReleases ==
    /\ tui.pc = "release" /\ tui' = NoRequest
    /\ lock' = IF lock = "tui" THEN None ELSE lock
    /\ UNCHANGED <<server, store, agent, told, bounds>>

(* The terminal has its answer and sends the first turn. *)
TuiFirstTurn ==
    /\ thread = "tuiNew" /\ tui.pc = "idle" /\ thread' = "alive"
    /\ UNCHANGED <<perm, orphan, store, lock, agent, tui, told, bounds>>

(* Persisting fails twice, or the repair is not answered: the terminal is told. *)
TuiFails ==
    /\ Fault /\ tui.pc \in {"observe", "prepare", "repair", "update", "persist"}
    /\ perm' \in {perm} \cup (IF tui.pc = "update" /\ thread = "alive" THEN {tui.want}
                             ELSE {})
    /\ tui' = [tui EXCEPT !.pc = "release"] /\ told' = TRUE
    /\ UNCHANGED <<thread, orphan, store, lock, agent, ops>>

(* The terminal quits with a request unanswered: the fence goes, the request may still
   be carried out.  A proxy that is killed leaves whatever it has done. *)
TuiCloses ==
    /\ Fault /\ tui.pc # "idle"
    /\ orphan' = IF TuiAt({"update"}, "sent") THEN tui.got ELSE orphan
    /\ tui' = NoRequest /\ told' = TRUE /\ lock' = IF lock = "tui" THEN None ELSE lock
    /\ UNCHANGED <<thread, perm, store, agent, ops>>

OrphanRuns ==
    /\ orphan # None /\ orphan' = None
    /\ perm' \in IF thread = "alive" THEN {perm, orphan} ELSE {perm}
    /\ told' = TRUE
    /\ UNCHANGED <<thread, store, lock, agent, tui, bounds>>

-----------------------------------------------------------------------------
Next ==
    \/ \E p \in Page :
          \/ BeginOpen(p) \/ BeginDelete(p)
          \/ \E v \in Perm : BeginUpdate(p, v) \/ BeginStart(p, v)
          \/ AcquireMutation(p) \/ ReadStored(p) \/ Resume(p) \/ OpenReturns(p)
          \/ SetAtServer(p) \/ SaveSettings(p) \/ SaveConflicts(p) \/ Refused(p)
          \/ DeleteAtServer(p) \/ RemoveSettings(p) \/ StartAtServer(p)
          \/ StartElsewhere(p) \/ RememberStarted(p) \/ FirstTurn(p) \/ RequestLost(p)
    \/ LeaseCloses \/ AgentCrashes
    \/ \E kind \in {"start", "update"}, v \in Perm : TuiRequest(kind, v)
    \/ \E kind \in {"resume", "delete"} : TuiRequest(kind, None)
    \/ TuiAcquires \/ TuiObserves \/ TuiPrepares \/ TuiAnswered \/ TuiClaimsRepair
    \/ TuiRepairs \/ TuiPersists \/ TuiReleases \/ TuiFirstTurn \/ TuiFails
    \/ TuiCloses \/ OrphanRuns

Spec == Init /\ [][Next]_vars

-----------------------------------------------------------------------------
(***************************************************************************)
(* Properties                                                              *)
(***************************************************************************)
(* The variables have their types, and whoever is inside the fence of a task holds its
   lock (acquireMutation). *)
TypeOK ==
    /\ thread \in {"none", "agentNew", "tuiNew", "alive", "deleted"}
    /\ perm \in Perm \cup {None}
    /\ row.perm \in Perm \cup {None} /\ obs \in 0 .. gen
    /\ \A p \in Page : op[p].pc \in {"read", "resume", "resumed", "save"} => lock = p
    /\ (tui.kind \in Fenced /\ tui.pc \notin {"idle", "lock"}) => lock = "tui"

(* With nobody inside the fence, the permissions that the app-server applies are the
   ones stored, unless somebody was told of a failure: the two never drift apart
   silently (retryPermissionPersistence). *)
NoSilentDivergence ==
    lock = None /\ thread = "alive" /\ row.rev > 0 /\ ~told => row.perm = perm

(* What a page is told about permissions is what is in effect at that moment
   (ThreadSessionCoordinator.open, updateSettings). *)
ViewTruthful ==
    \A p \in Page : view'[p] # view[p] /\ ~told' => view'[p].perm \in {None, perm'}

(* A late observation of the terminal never brings back the settings of a task that
   has been deleted (saveObserved); a deletion that a fault cut short may leave them. *)
DeletedStaysDeleted ==
    faults = 0 /\ thread = "deleted" /\ tui.pc = "idle" /\ (\A p \in Page : At(p, "idle")) =>
        row.by # "tui"
=============================================================================
