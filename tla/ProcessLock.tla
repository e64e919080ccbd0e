------------------------------ MODULE ProcessLock ------------------------------
(***************************************************************************)
(* The lock that keeps one agent, one controller, one provisioner and one  *)
(* app-server supervisor running on a host (host/process-files.ts).        *)
(*                                                                         *)
(* A process writes a record of itself into an owner file of its own and   *)
(* takes the lock by linking that file to the public path.  A link whose   *)
(* recorded process is gone is taken away by renaming the public path to a *)
(* quarantine name; whoever moved somebody else's link that way puts it    *)
(* back.  Nothing is atomic beyond one call of the file system, so every   *)
(* call is a step here.                                                    *)
(*                                                                         *)
(* A file is known by the process whose record it holds; a name is the     *)
(* public path, the owner, proof or quarantine name drawn by one process.  *)
(***************************************************************************)
EXTENDS Naturals

CONSTANTS Procs,      \* the processes that may start, in any order
          Before,     \* the process that held the lock and died before
          HostOf,     \* the host each of them runs on
          MaxCrashes, \* how many may be killed
          None

ProcessLockAssumption ==
    /\ Before \notin Procs
    /\ None \notin Procs \cup {Before}
    /\ HostOf \in [Procs \cup {Before} -> STRING]

VARIABLES pub,     \* the file the public path names, or None
          own,     \* the owner names that still exist
          proof,   \* the file each process's proof name names, or None
          quar,    \* the file each process's quarantine name names, or None
          alive,   \* the processes that run (a record of another is stale)
          pc,      \* where each process is in acquire or release
          todo,    \* the quarantine names its last readdir still leaves to read
          round,   \* 1 and 2 in the two calls of relinquish of a failing acquire
          crashes

files == <<pub, own, proof, quar>>
vars == <<pub, own, proof, quar, alive, pc, todo, round, crashes>>

\* The quarantine names a process may draw: one, and another one when it
\* relinquishes for the second time.
Quarantines == Procs \X {1, 2}

Records == Procs \cup {Before}

TypeOK ==
    /\ pub \in Records \cup {None}
    /\ own \subseteq Records
    /\ proof \in [Procs -> Records \cup {None}]
    /\ quar \in [Quarantines -> Records \cup {None}]
    /\ alive \subseteq Procs
    /\ pc \in [Procs -> {"out", "scan", "read", "link", "prove", "inspect",
                         "reclaim", "compare", "restoreReclaimed", "aliases",
                         "rescan", "reread", "held",
                         "rename", "match", "restoreReleased", "sweep",
                         "unlinkReclaimed", "unlinkReleased",
                         "sweeping", "drop", "done"}]
    /\ todo \in [Procs -> SUBSET Quarantines]
    /\ round \in [Procs -> 0..2]
    /\ crashes \in 0..MaxCrashes

\* The lock file of a process that is gone, with its owner file beside it.
Init ==
    /\ pub \in {None, Before}
    /\ own = (IF pub = Before THEN {Before} ELSE {})
    /\ proof = [p \in Procs |-> None]
    /\ quar = [q \in Quarantines |-> None]
    /\ alive = {}
    /\ pc = [p \in Procs |-> "out"]
    /\ todo = [p \in Procs |-> {}]
    /\ round = [p \in Procs |-> 0]
    /\ crashes = 0

To(p, where) == pc' = [pc EXCEPT ![p] = where]

(***************************************************************************)
(* What a process can tell from a record.                                  *)
(***************************************************************************)

\* /proc shows a process with the recorded pid, start time, boot and user only
\* while the recorded process itself runs.
readLinuxProcessIdentity(r) == r \in alive

processRecordMatches(p, r) == HostOf[p] = HostOf[r] /\ readLinuxProcessIdentity(r)

\* A record of another host cannot be shown to be stale from here.
processRecordMayOwnLock(p, r) ==
    HostOf[p] # HostOf[r] \/ processRecordMatches(p, r)

processLockQuarantines == {q \in Quarantines : quar[q] # None}

\* The quarantine name a process works with.
processLockQuarantinePath(p) == <<p, IF round[p] = 2 THEN 2 ELSE 1>>

Moved(p) == quar[processLockQuarantinePath(p)]

SetMoved(p, f) == quar' = [quar EXCEPT ![processLockQuarantinePath(p)] = f]

sameFile(f, g) == f # None /\ f = g

(***************************************************************************)
(* blockingProcessLockQuarantine, before the link and again after it.      *)
(***************************************************************************)

\* The owner file is written and synced before the first look.
createExclusiveRecord(p) ==
    /\ pc[p] = "out" /\ p \notin alive /\ p \notin own
    /\ alive' = alive \cup {p}
    /\ own' = own \cup {p}
    /\ To(p, "scan")
    /\ UNCHANGED <<pub, proof, quar, todo, round, crashes>>

\* A plausible slip: only the look before the link is kept.
MutListQuarantines(p) ==
    /\ LET none == processLockQuarantines = {} IN
       \/ pc[p] = "scan" /\ To(p, IF none THEN "link" ELSE "read")
       \/ pc[p] = "rescan" /\ To(p, "held")
       \/ pc[p] = "sweep" /\ To(p, "sweeping")
    /\ todo' = [todo EXCEPT ![p] = IF pc[p] = "rescan" THEN {} ELSE processLockQuarantines]
    /\ UNCHANGED <<pub, own, proof, quar, alive, round, crashes>>

\* readdir lists the quarantine names there are at this moment; nothing blocks
\* when all of them have been read: on to the link, or the lock is acquired.
ListQuarantines(p) ==
    /\ LET none == processLockQuarantines = {} IN
       \/ pc[p] = "scan" /\ To(p, IF none THEN "link" ELSE "read")
       \/ pc[p] = "rescan" /\ To(p, IF none THEN "held" ELSE "reread")
       \/ pc[p] = "sweep" /\ To(p, "sweeping")
    /\ todo' = [todo EXCEPT ![p] = processLockQuarantines]
    /\ UNCHANGED <<pub, own, proof, quar, alive, round, crashes>>

\* Where a process goes that a quarantined owner blocks: acquire refuses; with
\* its own link already published it relinquishes first, here and once more in
\* the handler around it.
Blocked(p) ==
    \/ pc[p] = "read" /\ To(p, "drop") /\ UNCHANGED round
    \/ /\ pc[p] = "reread" /\ To(p, "rename")
       /\ round' = [round EXCEPT ![p] = 1]

PassedOver(p, q) ==
    /\ \/ todo[p] # {q} /\ UNCHANGED pc
       \/ todo[p] = {q} /\ To(p, IF pc[p] = "read" THEN "link" ELSE "held")
    /\ UNCHANGED round

\* One listed name is read: a name that is gone is passed over (or taken for a
\* lock being initialized, when it went between the stat and the read), a
\* possible owner blocks, and the link of a dead process is removed.
blockingProcessLockQuarantine(p) ==
    \E q \in todo[p] :
        /\ pc[p] \in {"read", "reread"}
        /\ \/ /\ quar[q] = None
              /\ PassedOver(p, q) \/ Blocked(p)
              /\ UNCHANGED quar
           \/ /\ quar[q] # None /\ processRecordMayOwnLock(p, quar[q])
              /\ Blocked(p)
              /\ UNCHANGED quar
           \/ /\ quar[q] # None /\ ~processRecordMayOwnLock(p, quar[q])
              /\ quar' = [quar EXCEPT ![q] = None]
              /\ PassedOver(p, q)
        /\ todo' = [todo EXCEPT ![p] = IF pc'[p] = pc[p] THEN @ \ {q} ELSE {}]
        /\ UNCHANGED <<pub, own, proof, alive, crashes>>

\* link(ownerPath, path) fails when the public path exists.
LinkPublic(p) ==
    /\ pc[p] = "link"
    /\ \/ pub = None /\ pub' = p /\ To(p, "rescan")
       \/ pub # None /\ UNCHANGED pub /\ To(p, "prove")
    /\ UNCHANGED <<own, proof, quar, alive, todo, round, crashes>>

(***************************************************************************)
(* inspectAndReclaimProcessLock                                            *)
(***************************************************************************)

\* A second link to the file keeps what is inspected from being replaced.
LinkProof(p) ==
    /\ pc[p] = "prove"
    /\ proof' = [proof EXCEPT ![p] = pub]
    /\ To(p, IF pub = None THEN "scan" ELSE "inspect")
    /\ UNCHANGED <<pub, own, quar, alive, todo, round, crashes>>

\* acquire fails: the proof name, which nobody else looks at, goes with it.
Refuse(p) == proof' = [proof EXCEPT ![p] = None] /\ To(p, "drop")

Inspect(p) ==
    /\ pc[p] = "inspect"
    /\ \/ processRecordMayOwnLock(p, proof[p]) /\ Refuse(p)
       \/ ~processRecordMayOwnLock(p, proof[p]) /\ To(p, "reclaim") /\ UNCHANGED proof
    /\ UNCHANGED <<pub, own, quar, alive, todo, round, crashes>>

\* The public path is renamed, whatever it names by now.
Reclaim(p) ==
    /\ pc[p] = "reclaim"
    /\ SetMoved(p, pub)
    /\ pub' = None
    /\ proof' = [proof EXCEPT ![p] = IF pub = None THEN None ELSE @]
    /\ To(p, IF pub = None THEN "scan" ELSE "compare")
    /\ UNCHANGED <<own, alive, todo, round, crashes>>

\* A plausible slip: whatever was moved is taken for the stale file.
MutCompare(p) ==
    /\ pc[p] = "compare"
    /\ SetMoved(p, None)
    /\ To(p, "aliases")
    /\ UNCHANGED <<pub, own, proof, alive, todo, round, crashes>>

\* The file that was judged stale is thrown away, another one is put back.
Compare(p) ==
    /\ pc[p] = "compare"
    /\ \/ /\ sameFile(Moved(p), proof[p])
          /\ SetMoved(p, None)
          /\ To(p, "aliases")
       \/ /\ ~sameFile(Moved(p), proof[p])
          /\ To(p, "restoreReclaimed")
          /\ UNCHANGED quar
    /\ UNCHANGED <<pub, own, proof, alive, todo, round, crashes>>

\* Every owner name of the stale file goes, and the lock is tried again.
removeProcessLockOwnerAliases(p) ==
    /\ pc[p] = "aliases"
    /\ own' = own \ {proof[p]}
    /\ proof' = [proof EXCEPT ![p] = None]
    /\ To(p, "scan")
    /\ UNCHANGED <<pub, quar, alive, todo, round, crashes>>

(***************************************************************************)
(* restoreQuarantinedProcessLock                                           *)
(***************************************************************************)

\* Where each caller goes on: reclaim reports a lock being initialized,
\* relinquish looks for the links of its own that others moved.
Restored(p) ==
    \/ pc[p] \in {"restoreReclaimed", "unlinkReclaimed"} /\ Refuse(p)
    \/ pc[p] \in {"restoreReleased", "unlinkReleased"} /\ To(p, "sweep") /\ UNCHANGED proof

\* link(quarantinePath, path) and, in the next step, rm(quarantinePath).
RestoreLink(p) ==
    /\ pc[p] \in {"restoreReclaimed", "restoreReleased"}
    /\ Moved(p) # None /\ pub = None
    /\ pub' = Moved(p)
    /\ To(p, IF pc[p] = "restoreReclaimed" THEN "unlinkReclaimed" ELSE "unlinkReleased")
    /\ UNCHANGED <<own, proof, quar, alive, todo, round, crashes>>

\* The quarantine name is removed: after the link, when the public path names
\* the same file already; or its owner removed it.
RestoreUnlink(p) ==
    /\ \/ pc[p] \in {"unlinkReclaimed", "unlinkReleased"}
       \/ /\ pc[p] \in {"restoreReclaimed", "restoreReleased"}
          /\ Moved(p) = None \/ sameFile(Moved(p), pub)
    /\ SetMoved(p, None)
    /\ Restored(p)
    /\ UNCHANGED <<pub, own, alive, todo, round, crashes>>

\* A plausible slip: no deadline.
MutRestoreTimesOut(p) == FALSE /\ UNCHANGED vars

\* The public path stays taken for 20 s: the name is left in quarantine and the
\* caller fails.  A failing acquire goes on to its next handler; a release that
\* fails leaves the owner file behind, and the process ends.
RestoreTimesOut(p) ==
    /\ pc[p] \in {"restoreReclaimed", "restoreReleased"}
    /\ Moved(p) # None /\ pub \notin {None, Moved(p)}
    /\ \/ pc[p] = "restoreReclaimed" /\ Refuse(p) /\ UNCHANGED <<round, alive>>
       \/ /\ pc[p] = "restoreReleased" /\ round[p] = 1
          /\ round' = [round EXCEPT ![p] = 2]
          /\ To(p, "rename") /\ UNCHANGED <<alive, proof>>
       \/ /\ pc[p] = "restoreReleased" /\ round[p] = 2
          /\ To(p, "drop") /\ UNCHANGED <<round, alive, proof>>
       \/ /\ pc[p] = "restoreReleased" /\ round[p] = 0
          /\ alive' = alive \ {p} /\ To(p, "done") /\ UNCHANGED <<round, proof>>
    /\ UNCHANGED <<pub, own, quar, todo, crashes>>

restoreQuarantinedProcessLock(p) ==
    RestoreLink(p) \/ RestoreUnlink(p) \/ RestoreTimesOut(p)

(***************************************************************************)
(* relinquishOwnedProcessLock                                              *)
(***************************************************************************)

release(p) ==
    /\ pc[p] = "held"
    /\ To(p, "rename")
    /\ UNCHANGED <<files, alive, todo, round, crashes>>

\* The public path is renamed, whatever it names.
MoveAside(p) ==
    /\ pc[p] = "rename"
    /\ pub' = None
    /\ (IF pub = None THEN UNCHANGED quar ELSE SetMoved(p, pub))
    /\ To(p, "match")
    /\ UNCHANGED <<own, proof, alive, todo, round, crashes>>

\* Its own link is removed, another's is put back.
Match(p) ==
    /\ pc[p] = "match"
    /\ \/ /\ sameFile(Moved(p), p)
          /\ SetMoved(p, None)
          /\ To(p, "sweep")
       \/ Moved(p) = None /\ UNCHANGED quar /\ To(p, "sweep")
       \/ Moved(p) \notin {None, p} /\ UNCHANGED quar /\ To(p, "restoreReleased")
    /\ UNCHANGED <<pub, own, proof, alive, todo, round, crashes>>

\* Its own file, under a name some other process moved it to, is removed.
Sweep(p) ==
    \/ \E q \in todo[p] :
          /\ pc[p] = "sweeping"
          /\ todo' = [todo EXCEPT ![p] = @ \ {q}]
          /\ quar' = [quar EXCEPT ![q] = IF @ = p THEN None ELSE @]
          /\ UNCHANGED <<pub, own, proof, alive, pc, round, crashes>>
    \/ /\ pc[p] = "sweeping" /\ todo[p] = {}
       /\ To(p, IF round[p] = 1 THEN "rename" ELSE "drop")
       /\ round' = [round EXCEPT ![p] = IF @ = 1 THEN 2 ELSE @]
       /\ UNCHANGED <<files, alive, todo, crashes>>

relinquishOwnedProcessLock(p) == MoveAside(p) \/ Match(p) \/ Sweep(p)

\* The owner file goes last; the process ends.
DropOwner(p) ==
    /\ pc[p] = "drop"
    /\ own' = own \ {p}
    /\ alive' = alive \ {p}
    /\ To(p, "done")
    /\ UNCHANGED <<pub, proof, quar, todo, round, crashes>>

\* A process is killed; its names stay.
Crash(p) ==
    /\ p \in alive /\ crashes < MaxCrashes
    /\ crashes' = crashes + 1
    /\ alive' = alive \ {p}
    /\ To(p, "done")
    /\ UNCHANGED <<files, todo, round>>

acquire(p) ==
    \/ ListQuarantines(p) \/ blockingProcessLockQuarantine(p)
    \/ LinkPublic(p) \/ LinkProof(p) \/ Inspect(p)
    \/ Reclaim(p) \/ Compare(p) \/ removeProcessLockOwnerAliases(p)

Step(p) ==
    \/ acquire(p) \/ restoreQuarantinedProcessLock(p)
    \/ relinquishOwnedProcessLock(p) \/ DropOwner(p)

Next == \E p \in Procs :
            createExclusiveRecord(p) \/ Step(p) \/ release(p) \/ Crash(p)

Spec == Init /\ [][Next]_vars

FairSpec == Spec /\ \A p \in Procs : WF_vars(Step(p)) /\ WF_vars(release(p))

(***************************************************************************)
(* Properties                                                              *)
(***************************************************************************)

\* acquire (process-files.ts:60): two processes that run never hold the lock
\* at once, whatever links other processes move meanwhile.
Exclusion ==
    \A p, q \in Procs : pc[p] = "held" /\ pc[q] = "held" => p = q

\* relinquish and reclaim (process-files.ts:302): a holder's link is never lost:
\* it is the public path, or a quarantine name from which it blocks the others
\* and is put back.
HolderIsLinked ==
    \A p \in Procs : pc[p] = "held" => pub = p \/ \E q \in Quarantines : quar[q] = p

\* acquire (process-files.ts:60): every attempt ends, with the lock or with an
\* error, even when the processes keep moving each other's links.
AttemptsEnd == \A p \in Procs : pc[p] = "scan" ~> pc[p] \in {"held", "done"}

================================================================================
