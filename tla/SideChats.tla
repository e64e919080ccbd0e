----------------------------- MODULE SideChats -----------------------------
(***************************************************************************)
(* Side chats: one fork of a task for questions, named by a row of the     *)
(* state file.  SideChatService runs its operations under the lock of the  *)
(* parent task (see StateLock), most of them under the runtime gate too:   *)
(* there is one call at a time, and waiting for the lock changes nothing,  *)
(* so a call begins when it has it.  The app-server executes requests when *)
(* it gets to them, also those whose caller has given up or died.          *)
(*                                                                         *)
(* One parent task with one workspace.  A creation is identified by its    *)
(* operation key, and the thread that thread/fork creates for it by the    *)
(* same number: the row knows the thread once its id has been saved.       *)
(***************************************************************************)
EXTENDS StateFile, FiniteSets

CONSTANTS MaxKeys,      \* bound on creations
          MaxCrashes

SideAssumption == MaxKeys \in Nat /\ MaxCrashes \in Nat

Keys == 1 .. MaxKeys
Status == {"none", "creating", "ready", "deleting", "indeterminate"}
Row == [status : Status, key : 0 .. MaxKeys, known : BOOLEAN]

VARIABLES
    up,         \* the agent runs
    issued,     \* creations so far
    kind,       \* the call: start, send, delete, abandon, parent, or none
    pc,         \* its next step
    key,        \* the creation that it is about
    known,      \* its row has the id of the thread
    reply,      \* what became of its request: none, sent, done, refused
    orphans,    \* requests without a caller that may still be executed
    forks,      \* side threads that exist
    running,    \* those that answer a question
    parent,     \* the parent task exists
    abandoned,  \* history: creations that a user gave up explicitly
    unseen,     \* history: requests whose caller did not see the answer
    unsettled,  \* history: the write that was to settle the row threw in this process
    crashes

serverVars == <<forks, running, parent>>
callVars == <<kind, pc, key, known, reply>>
history == <<abandoned, unseen, unsettled>>
vars == <<mem, disk, faults, up, issued, callVars, orphans, serverVars, history,
          crashes>>

NoRow == [status |-> "none", key |-> 0, known |-> FALSE]
Request == [what : {"fork", "turn", "delete", "parent"}, key : 0 .. MaxKeys]

Init ==
    /\ mem = [row |-> NoRow, workspace |-> TRUE] /\ disk = mem /\ faults = 0
    /\ up = TRUE /\ issued = 0
    /\ kind = "none" /\ pc = "idle" /\ key = 0 /\ known = FALSE /\ reply = "none"
    /\ orphans = {} /\ forks = {} /\ running = {} /\ parent = TRUE
    /\ abandoned = {} /\ unseen = {} /\ unsettled = FALSE /\ crashes = 0

-----------------------------------------------------------------------------
(***************************************************************************)
(* Calls                                                                   *)
(***************************************************************************)
At(label) == up /\ pc = label
Goto(label) == pc' = label

(* What a step leaves alone that touches neither the file nor the server. *)
Local == UNCHANGED <<mem, disk, faults, up, issued, orphans, serverVars, history,
                     crashes>>

(* #required: the row of this thread, in use. *)
IsReady(n) == /\ mem.row.status = "ready" /\ mem.row.known /\ mem.row.key = n
              /\ mem.workspace

(* What a call must find to go on. *)
CheckStart == parent /\ mem.workspace /\ mem.row.status = "none"
CheckSend(n) == IsReady(n) /\ n \in forks \ running
CheckDelete == mem.row.status # "none" /\ mem.workspace /\ mem.row.known
CheckAbandon(n) == /\ mem.row.status = "indeterminate" /\ mem.workspace
                   /\ mem.row.key = n

(* withoutSide *)
CheckParent == parent /\ mem.row.status = "none"

(* A call that does not find it, or fails to read a thread or to acquire a lease,
   returns without a trace. *)
Enter(call, label, n, has) ==
    /\ At("idle")
    /\ kind' = call /\ Goto(label) /\ key' = n /\ known' = has
    /\ UNCHANGED reply /\ Local

Start == issued < MaxKeys /\ CheckStart /\ Enter("start", "claim", 0, FALSE)
SendMessage(n) == CheckSend(n) /\ Enter("send", "ask", n, TRUE)
Delete == CheckDelete /\ Enter("delete", "mark", mem.row.key, TRUE)
Abandon(n) == CheckAbandon(n) /\ Enter("abandon", "remove", n, FALSE)
DeleteParent == CheckParent /\ Enter("parent", "ask", 0, FALSE)

Leave ==
    /\ At("leave")
    /\ kind' = "none" /\ Goto("idle") /\ key' = 0 /\ known' = FALSE
    /\ UNCHANGED reply /\ Local

-----------------------------------------------------------------------------
(***************************************************************************)
(* The row                                                                 *)
(***************************************************************************)
With(row) == [mem EXCEPT !.row = row]

(* A transaction of a call, and its next step when it succeeds or throws. A call
   that just ends after a transaction that threw leaves the row as it is. *)
Write(new, o, then, else) ==
    /\ Transaction(new, o)
    /\ Goto(IF o = "ok" THEN then ELSE else)
    /\ unsettled' = (o # "ok" /\ else = "leave")
    /\ UNCHANGED <<up, kind, reply, orphans, serverVars, unseen, crashes>>

(* repository.claim looks for the workspace again. *)
Claimable == mem.workspace

Claim(o) ==
    /\ At("claim")
    /\ issued' = issued + 1
    /\ key' = issued + 1
    /\ IF Claimable
       THEN Write(With([status |-> "creating", key |-> issued + 1,
                        known |-> FALSE]), o, "ask", "leave")
       ELSE Write(mem, o, "leave", "leave")
    /\ UNCHANGED <<known, abandoned>>

SaveChild(o) ==
    /\ At("saveChild")
    /\ known' = TRUE
    /\ Write(With([status |-> "creating", key |-> key, known |-> TRUE]), o,
             "ready", "unknown")
    /\ UNCHANGED <<issued, key, abandoned>>

(* The new thread is read-only and has its boundary, or the creation fails. *)
MarkReady(o) ==
    /\ At("ready")
    /\ Write(With([status |-> "ready", key |-> key, known |-> TRUE]), o,
             "leave", "unknown")
    /\ UNCHANGED <<issued, key, known, abandoned>>

Unfit ==
    /\ At("ready")
    /\ Goto("unknown")
    /\ UNCHANGED <<kind, key, known, reply>> /\ Local

MarkDeleting(o) ==
    /\ At("mark")
    /\ Write(With([status |-> "deleting", key |-> key, known |-> TRUE]), o,
             "inspect", "unknown")
    /\ UNCHANGED <<issued, key, known, abandoned>>

(* The row that the catch blocks save. *)
unknownRow == [status |-> "indeterminate", key |-> key, known |-> known]

MarkUnknown(o) ==
    /\ At("unknown")
    /\ Write(With(unknownRow), o, "leave", "leave")
    /\ UNCHANGED <<issued, key, known, abandoned>>

(* repository.remove: after a refused fork, a deletion, or a user's word. *)
Remove(o) ==
    /\ At("remove")
    /\ Write(With(NoRow), o, "leave",
             IF kind = "delete" THEN "unknown" ELSE "leave")
    /\ abandoned' = IF kind = "abandon" THEN abandoned \cup {key}
                                           ELSE abandoned
    /\ UNCHANGED <<issued, key, known>>

-----------------------------------------------------------------------------
(***************************************************************************)
(* Requests to the app-server                                              *)
(***************************************************************************)
What == [start |-> "fork", send |-> "turn", delete |-> "delete",
         parent |-> "parent"]
Own == [what |-> What[kind], key |-> key]

(* thread/fork, turn/start, thread/delete of the side chat or of its parent *)
Ask ==
    /\ At("ask")
    /\ Goto("await") /\ reply' = "sent"
    /\ UNCHANGED <<kind, key, known>> /\ Local

MayErase == key \notin running

(* synchronize; a running turn is interrupted, and its end awaited for 15 s. *)
Inspect ==
    /\ At("inspect")
    /\ \/ Goto("unknown")
       \/ key \in forks /\ MayErase /\ Goto("ask")
    /\ UNCHANGED <<kind, key, known, reply>> /\ Local

(* Mutant: whatever the error, there is no fork. *)
WhenUnknownThenNone == CASE kind = "start"  -> "remove"
                         [] kind = "delete" -> "unknown"
                         [] OTHER -> "leave"

(* The connection was lost, or the answer names no thread or turn. *)
WhenUnknown == IF kind \in {"start", "delete"} THEN "unknown" ELSE "leave"

Orphaned == IF reply = "sent" THEN {Own} ELSE {}
Unseen == IF reply = "none" THEN {} ELSE {Own}

GiveUp ==
    /\ At("await")
    /\ Goto(WhenUnknown) /\ reply' = "none"
    /\ orphans' = orphans \cup Orphaned
    /\ unseen' = unseen \cup Unseen
    /\ UNCHANGED <<mem, disk, faults, up, issued, kind, key, known, serverVars,
                   abandoned, unsettled, crashes>>

(* CODEX_REQUEST_REJECTED: there is no fork. *)
WhenRefused == IF kind = "start" THEN "remove" ELSE WhenUnknown

Answered ==
    /\ At("await") /\ reply \in {"done", "refused"}
    /\ Goto(CASE reply = "refused" -> WhenRefused
              [] reply = "done" /\ kind = "start"  -> "saveChild"
              [] reply = "done" /\ kind = "delete" -> "remove"
              [] OTHER -> "leave")
    /\ reply' = "none"
    /\ UNCHANGED <<kind, key, known>> /\ Local

(* The app-server executes a request, or refuses it. *)
Possible(q) == CASE q.what \in {"fork", "parent"} -> parent
                 [] q.what = "turn"   -> q.key \in forks \ running
                 [] q.what = "delete" -> q.key \in forks

Execute(q) ==
    /\ Possible(q)
    /\ forks' = CASE q.what = "fork"   -> forks \cup {q.key}
                  [] q.what = "delete" -> forks \ {q.key}
                  [] OTHER             -> forks
    /\ running' = IF q.what = "turn" THEN running \cup {q.key}
                                     ELSE running \cap forks'
    /\ parent' = (parent /\ q.what # "parent")

Serve ==
    /\ reply = "sent"
    /\ \/ reply' = "done" /\ Execute(Own)
       \/ reply' = "refused" /\ UNCHANGED serverVars
    /\ UNCHANGED <<mem, disk, faults, up, issued, kind, pc, key, known, orphans,
                   history, crashes>>

ServeOrphan(q) ==
    /\ q \in orphans
    /\ orphans' = orphans \ {q}
    /\ Execute(q) \/ UNCHANGED serverVars
    /\ UNCHANGED <<mem, disk, faults, up, issued, callVars, history, crashes>>

(* A question is answered, or interrupted. *)
EndTurn(n) ==
    /\ n \in running
    /\ running' = running \ {n}
    /\ UNCHANGED <<mem, disk, faults, up, issued, callVars, orphans, forks, parent,
                   history, crashes>>

-----------------------------------------------------------------------------
(***************************************************************************)
(* The state file and the process                                          *)
(***************************************************************************)
Aside == UNCHANGED <<issued, callVars, orphans, serverVars, abandoned, unseen>>

(* WorkspaceRepository.remove: refused while a side chat is in the workspace. *)
RemoveWorkspace(o) ==
    /\ up /\ mem.workspace /\ mem.row.status = "none"
    /\ Transaction([mem EXCEPT !.workspace = FALSE], o)
    /\ UNCHANGED <<up, unsettled, crashes>> /\ Aside

FileCommits == /\ up /\ (OtherCommit \/ ForeignCommit)
               /\ UNCHANGED <<up, unsettled, crashes>> /\ Aside

Crash ==
    /\ up /\ crashes < MaxCrashes
    /\ up' = FALSE /\ crashes' = crashes + 1
    /\ LoseMemory
    /\ orphans' = orphans \cup Orphaned
    /\ unseen' = unseen \cup Unseen
    /\ kind' = "none" /\ pc' = "idle" /\ key' = 0 /\ known' = FALSE
    /\ reply' = "none"
    /\ UNCHANGED <<issued, serverVars, abandoned, unsettled>>

(* Mutant: nothing is recovered. *)
recoverRowNever == mem.row

(* SideChatRepository.recover *)
recoverRow ==
    IF mem.row.status \in {"creating", "deleting"}
    THEN [mem.row EXCEPT !.status = "indeterminate"] ELSE mem.row

Restart(o) ==
    /\ ~up
    /\ StartupTransaction(With(recoverRow), o)
    /\ up' = (o = "ok")
    /\ unsettled' = FALSE
    /\ UNCHANGED crashes /\ Aside

-----------------------------------------------------------------------------
Transact(o) == \/ Claim(o) \/ SaveChild(o) \/ MarkReady(o)
               \/ MarkDeleting(o) \/ MarkUnknown(o) \/ Remove(o)

Proceed == \/ Unfit \/ Ask \/ Inspect \/ GiveUp \/ Answered \/ Leave
           \/ \E o \in TxOutcome : Transact(o)

Next ==
    \/ Start \/ Delete \/ DeleteParent
    \/ \E n \in Keys : SendMessage(n) \/ Abandon(n) \/ EndTurn(n)
    \/ Proceed \/ Serve
    \/ \E q \in orphans : ServeOrphan(q)
    \/ \E o \in TxOutcome : RemoveWorkspace(o) \/ Restart(o)
    \/ FileCommits \/ Crash

Spec == Init /\ [][Next]_vars

(***************************************************************************)
(* A call goes on: the app-server answers or its connection is lost (the   *)
(* request itself has no deadline), the wait for a turn to stop ends after *)
(* 15 s, a transaction ends.  The agent is started again.                  *)
(***************************************************************************)
Fairness == WF_vars(Proceed) /\ WF_vars(\E o \in TxOutcome : Restart(o))

FairSpec == Spec /\ Fairness

-----------------------------------------------------------------------------
(***************************************************************************)
(* Properties                                                              *)
(***************************************************************************)
(* Rows, calls and threads have their types. *)
TypeOK ==
    /\ {mem.row, disk.row} \subseteq Row
    /\ issued \in 0 .. MaxKeys /\ key \in 0 .. MaxKeys
    /\ kind \in {"none", "start", "send", "delete", "abandon", "parent"}
    /\ reply \in {"none", "sent", "done", "refused"}
    /\ orphans \subseteq Request /\ unseen \subseteq Request
    /\ running \subseteq forks /\ forks \subseteq Keys /\ abandoned \subseteq Keys
    /\ unsettled \in BOOLEAN /\ crashes \in 0 .. MaxCrashes

(* No thread is created behind the user's back: every fork that exists, or that
   the app-server may still create, is named by the row, in memory and on disk,
   unless a user gave up that very creation. *)
Pending == {q.key : q \in {r \in orphans \cup Orphaned : r.what = "fork"}}
ForkIsOwned ==
    \A n \in (forks \cup Pending) \ abandoned :
        mem.row.key = n /\ disk.row.key = n

(* A side chat that is offered for questions exists: after a deletion whose
   outcome is unknown it is not offered again, and neither is one whose creation
   was interrupted. *)
ReadyIsAlive ==
    \A db \in {mem, disk} : db.row.status = "ready" =>
                              db.row.known /\ db.row.key \in forks

(* The workspace of a side chat is not removed, though its path was resolved
   long before the row was written; but a row whose removal could not be saved
   may come back as unknown after its workspace has gone. *)
WorkspaceStays ==
    \A db \in {mem, disk} : db.row.status # "none" =>
        db.workspace \/ (db.row.status = "indeterminate" /\ faults > 0)

(* A side chat is deleted while it answers only if nobody saw the turn start. *)
StoppedBeforeDelete ==
    \A n \in (forks \ forks') \cap running :
        \E q \in unseen : q.what = "turn" /\ q.key = n

(* The parent goes before its side chat only if nobody saw it go, or if the row
   came back because its removal could not be saved; and then the side chat is
   not offered for questions. *)
ParentStays ==
    ~parent /\ mem.row.status # "none" =>
        \/ \E q \in unseen : q.what = "parent"
        \/ mem.row.status # "ready" /\ faults > 0

(* No creation or deletion stays open: it succeeds, is withdrawn, or is shown to the
   user as unknown, though the app-server, the agent or a transaction failed midway.
   One case remains: the last write of the call itself throws, the one that claims,
   withdraws or marks the row. Then nothing in this process touches the row until a
   user deletes the side chat or the agent starts again, and the start settles it. *)
Settled == mem.row.status \notin {"creating", "deleting"} \/ (up /\ unsettled)
OperationSettles == []<>Settled
=============================================================================
