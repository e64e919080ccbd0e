----------------------------- MODULE StateLock -----------------------------
(***************************************************************************)
(* The lock file protocol under every transaction of a state file and      *)
(* under the coordination locks (the runtime gate, side chats, settings).  *)
(*                                                                         *)
(* A lock is a hard link `path` to the owner file of whoever holds it; the *)
(* commit fence is a second hard link `path`.commit to the same file.  A   *)
(* process that finds the lock taken by a dead owner moves it aside, to a  *)
(* quarantine, before it removes it, and puts it back if it moved the      *)
(* wrong one.  Every action is one operation on the names that processes   *)
(* share: a directory is listed in one step, and each name that it had is  *)
(* read in a step of its own.  What an attempt does to names of its own    *)
(* (its proof, a quarantine it is about to drop) is part of the operation  *)
(* before it; so is the end of its sweep, of the one name that its own     *)
(* file can have.                                                          *)
(***************************************************************************)
EXTENDS Naturals, FiniteSets

CONSTANTS Attempts,         \* calls of acquireStateLock
          Processes,
          ProcessOf,        \* the process that makes an attempt
          HostOf,           \* the host (and boot) of a process
          Gone,             \* processes that died before
          None,
          MaxSpares,        \* bound on the owner files of an attempt
          MaxCrashes,
          MaxExpiries       \* bound on leases that expire under a live owner

ASSUME LockAssumption ==
    /\ ProcessOf \in [Attempts -> Processes]
    /\ Gone \subseteq Processes
    /\ MaxSpares \in Nat \ {0} /\ MaxCrashes \in Nat /\ MaxExpiries \in Nat

(* An owner file; its content tells the process that wrote it. *)
Files == Attempts \X (1 .. MaxSpares)

ASSUME NoFileAssumption == None \notin Files

VARIABLES
    lock,       \* what `path` links to
    fence,      \* what `path`.commit links to
    quar,       \* the files that the quarantines of an attempt link to
    fquar,      \* what its quarantine of the fence links to
    listed,     \* the names of quarantines that an attempt has still to read
    expired,    \* files that have been without a heartbeat for a lease
    dead,       \* processes that have died
    pc,         \* the next operation of each attempt
    site,       \* what it does it for: top, published, reclaim, recheck,
                \* backoff, giveup, release, unlock
    proof,      \* the file its proof links to
    moved,      \* the file that it moved to a quarantine
    mine,       \* its owner file
    fresh,      \* the attempts that have read the state as it is now
    expiries,   \* leases that expired under a live owner
    crowded     \* a lock was moved aside while two live attempts had one published

fileVars    == <<lock, fence, quar, fquar, listed, expired>>
attemptVars == <<pc, site, proof, moved, mine>>
vars        == <<fileVars, dead, attemptVars, fresh, expiries, crowded>>

(* The lock may be that of a process that has died, behind its fence or not. *)
Left == {<<a, 1>> : a \in {b \in Attempts : ProcessOf[b] \in Gone}}

Init ==
    /\ lock \in Left \cup {None} /\ fence \in {None, lock}
    /\ quar = [a \in Attempts |-> {}]
    /\ fquar = [a \in Attempts |-> None] /\ listed = [a \in Attempts |-> {}]
    /\ expired = {} /\ dead = Gone
    /\ pc = [a \in Attempts |-> IF ProcessOf[a] \in Gone THEN "failed" ELSE "idle"]
    /\ site = [a \in Attempts |-> "top"]
    /\ proof = [a \in Attempts |-> None] /\ moved = proof /\ mine = proof
    /\ fresh = {} /\ expiries = 0 /\ crowded = FALSE

-----------------------------------------------------------------------------
Runs(a) == ProcessOf[a] \notin dead
At(a, label) == Runs(a) /\ pc[a] = label

Writer(f) == ProcessOf[f[1]]

(* processRecordUsesCurrentHostIdentity *)
SameHost(a, f) == HostOf[Writer(f)] = HostOf[ProcessOf[a]]

(* Mutant: the executable is compared, which an upgrade of Node.js changes. *)
ProcessLivesAsStarted(f) == FALSE

(* processRecordMatches, of a record of this host: process ids that are used again
   are told apart by the start time of the process. *)
ProcessLives(f) == Writer(f) \notin dead

(* stateLockLeaseIsActive: of this host the process decides, of another one the age of
   the file.  What is read is judged later, when the heartbeat may have come back: a
   lease that has expired under a live owner may be found either way. *)
MayBeActive(a, f) == IF SameHost(a, f) THEN ProcessLives(f)
                                       ELSE f \in expired => ProcessLives(f)
MayBeStale(a, f) == IF SameHost(a, f) THEN ~ProcessLives(f) ELSE f \in expired

(* A fence blocks unless its owner is known to be dead. *)
FenceIsHeld(a, f) == SameHost(a, f) => ProcessLives(f)

(* stateLockQuarantines *)
Names == {n \in Attempts \X Files : n[2] \in quar[n[1]]}

(* rm of names in quarantines: who has listed one will not find it any more. *)
Drop(names) ==
    /\ quar' = [b \in Attempts |-> {f \in quar[b] : <<b, f>> \notin names}]
    /\ listed' = [b \in Attempts |-> listed[b] \ names]

Goto(a, label) == pc' = [pc EXCEPT ![a] = label] /\ UNCHANGED site
Call(a, label, for) == /\ pc' = [pc EXCEPT ![a] = label]
                       /\ site' = [site EXCEPT ![a] = for]

(* Wait 25 ms and start over. *)
Again(a) == Call(a, "fence", "top")

others == <<dead, fresh, expiries, crowded>>

(* The attempts whose lock is published: they look at the quarantines once more, or
   have passed that look. *)
Looking == {"quarantine", "reading", "blocked"}
Holding == {"held", "assert", "fenced", "publish"}
Owns(a) == pc[a] \in Holding \/ (pc[a] \in Looking /\ site[a] = "published")

(* `path` is moved aside, and it is the lock of one of two that own one. *)
Crowds == \E a, b \in Attempts : a # b /\ Owns(a) /\ Owns(b) /\ lock = mine[a]

-----------------------------------------------------------------------------
(***************************************************************************)
(* stateCommitFenceIsBlocking                                              *)
(***************************************************************************)
FenceFree(a) ==
    Goto(a, CASE site[a] = "top"     -> "quarantine"
              [] site[a] = "reclaim" -> "prove"
              [] site[a] = "recheck" -> "lease")

FenceBlocks(a) ==
    CASE site[a] \in {"top", "reclaim"} -> Again(a)
      [] site[a] = "recheck"            -> Goto(a, "restore")
      [] site[a] \in {"release", "unlock"} -> Goto(a, "relinquish")

(* link(fencePath, proofPath) *)
ProveFence(a) ==
    /\ At(a, "fence")
    /\ proof' = [proof EXCEPT ![a] = fence]
    /\ IF fence = None THEN FenceFree(a) ELSE Goto(a, "fenceRead")
    /\ UNCHANGED <<fileVars, moved, mine>> /\ UNCHANGED others

ReadFence(a) ==
    /\ At(a, "fenceRead")
    /\ IF FenceIsHeld(a, proof[a])
       THEN FenceBlocks(a) /\ proof' = [proof EXCEPT ![a] = None]
       ELSE Goto(a, "fenceTake") /\ UNCHANGED proof
    /\ UNCHANGED <<fileVars, moved, mine>> /\ UNCHANGED others

(* rename(fencePath, quarantinePath): gone, the proven one, or another. *)
TakeFence(a) ==
    /\ At(a, "fenceTake")
    /\ fence' = None
    /\ proof' = [proof EXCEPT ![a] = None]
    /\ IF fence \in {None, proof[a]}
       THEN FenceFree(a) /\ UNCHANGED fquar
       ELSE Goto(a, "fenceRestore") /\ fquar' = [fquar EXCEPT ![a] = fence]
    /\ UNCHANGED <<lock, quar, listed, expired, moved, mine>> /\ UNCHANGED others

RestoreFence(a) ==
    /\ At(a, "fenceRestore") /\ fence = None
    /\ fence' = fquar[a]
    /\ fquar' = [fquar EXCEPT ![a] = None]
    /\ FenceBlocks(a)
    /\ UNCHANGED <<lock, quar, listed, expired, proof, moved, mine>> /\ UNCHANGED others

-----------------------------------------------------------------------------
(***************************************************************************)
(* acquireStateLock                                                        *)
(***************************************************************************)
Begin(a) ==
    /\ At(a, "idle")
    /\ Again(a)
    /\ UNCHANGED <<fileVars, proof, moved, mine>> /\ UNCHANGED others

(***************************************************************************)
(* hasBlockingQuarantine, before the lock is published and after.          *)
(***************************************************************************)
(* What the two callers do with the answer: start over or publish; withdraw the lock,
   or take it, unless the wait is over. *)
Blocked(a) == IF site[a] = "top" THEN Again(a) ELSE Call(a, "relinquish", "backoff")
NotBlocked(a) ==
    \/ site[a] = "top" /\ Goto(a, "link") /\ UNCHANGED fresh
    \/ site[a] = "published" /\ Call(a, "relinquish", "giveup") /\ UNCHANGED fresh
    \/ site[a] = "published" /\ Goto(a, "held") /\ fresh' = fresh \cup {a}

(* readdir *)
ListNames(a) ==
    /\ At(a, "quarantine")
    /\ listed' = [listed EXCEPT ![a] = Names]
    /\ IF Names = {} THEN NotBlocked(a) ELSE Goto(a, "reading") /\ UNCHANGED fresh
    /\ UNCHANGED <<lock, fence, quar, fquar, expired, dead, proof, moved, mine, expiries,
                   crowded>>

(* Read a name that is still there: a live lock blocks, another one is removed. *)
ReadName(a) ==
    /\ At(a, "reading") \/ At(a, "blocked")
    /\ \E n \in listed[a] :
         \/ /\ MayBeActive(a, n[2])
            /\ listed' = [listed EXCEPT ![a] = @ \ {n}] /\ UNCHANGED quar
            /\ Goto(a, "blocked")
         \/ /\ MayBeStale(a, n[2])
            /\ Drop({n})
            /\ UNCHANGED <<pc, site>>
    /\ UNCHANGED <<lock, fence, fquar, expired, proof, moved, mine>> /\ UNCHANGED others

(* Every name has been read or is gone. *)
EndLook(a) ==
    /\ At(a, "reading") \/ At(a, "blocked")
    /\ listed[a] = {}
    /\ IF pc[a] = "blocked" THEN Blocked(a) /\ UNCHANGED fresh ELSE NotBlocked(a)
    /\ UNCHANGED <<fileVars, dead, proof, moved, mine, expiries, crowded>>

(* Links(f): somebody has a name for the file. *)
Linked(f) == \/ f \in {lock, fence}
             \/ \E b \in Attempts : f \in quar[b] \cup {fquar[b], proof[b]}

(* createStateLockOwner and link(ownerPath, path) *)
Publish(a) ==
    /\ At(a, "link")
    /\ IF lock # None
       THEN Call(a, "fence", "reclaim") /\ UNCHANGED <<lock, mine, expired>>
       ELSE \E k \in 1 .. MaxSpares :
               /\ ~Linked(<<a, k>>) /\ \A j \in 1 .. k - 1 : Linked(<<a, j>>)
               /\ lock' = <<a, k>>
               /\ mine' = [mine EXCEPT ![a] = <<a, k>>]
               /\ expired' = expired \ {<<a, k>>}
               /\ Call(a, "quarantine", "published")
    /\ UNCHANGED <<fence, quar, fquar, listed, proof, moved>> /\ UNCHANGED others

(* assertStateLockWaitActive: the deadline has passed, or a signal.  A file that
   waits in a quarantine stays there; an acquisition that fails while it backs off
   tries once more to withdraw its lock. *)
TimeOut(a) ==
    /\ Runs(a)
    /\ \/ pc[a] = "fence" /\ site[a] = "top" /\ Goto(a, "failed")
       \/ /\ pc[a] = "fenceRestore" /\ fence # None
          /\ Goto(a, IF site[a] = "release" THEN "relinquish" ELSE "failed")
       \/ /\ pc[a] = "restore" /\ lock \notin {None, moved[a]}
          /\ CASE site[a] \in {"reclaim", "recheck"} -> Goto(a, "failed")
               [] site[a] = "backoff" -> Call(a, "relinquish", "giveup")
               [] site[a] \in {"giveup", "release", "unlock"} -> Goto(a, "abandoned")
    /\ UNCHANGED <<fileVars, proof, moved, mine>> /\ UNCHANGED others

-----------------------------------------------------------------------------
(***************************************************************************)
(* reclaimStaleStateLock                                                   *)
(***************************************************************************)
(* link(path, proofPath) *)
ProveLock(a) ==
    /\ At(a, "prove")
    /\ proof' = [proof EXCEPT ![a] = lock]
    /\ IF lock = None THEN Again(a) ELSE Goto(a, "lockRead")
    /\ UNCHANGED <<fileVars, moved, mine>> /\ UNCHANGED others

ReadLock(a) ==
    /\ At(a, "lockRead")
    /\ \/ MayBeActive(a, proof[a]) /\ Again(a) /\ proof' = [proof EXCEPT ![a] = None]
       \/ MayBeStale(a, proof[a]) /\ Goto(a, "take") /\ UNCHANGED proof
    /\ UNCHANGED <<fileVars, moved, mine>> /\ UNCHANGED others

(* rename(path, quarantinePath): gone, the proven lock, or another. *)
TakeLock(a) ==
    /\ At(a, "take")
    /\ lock' = None
    /\ moved' = [moved EXCEPT ![a] = lock]
    /\ quar' = [quar EXCEPT ![a] = @ \cup ({lock} \ {None})]
    /\ proof' = [proof EXCEPT ![a] = None]
    /\ crowded' = (crowded \/ Crowds)
    /\ \/ lock = None /\ Again(a)
       \/ lock # None /\ lock = proof[a] /\ Call(a, "fence", "recheck")
       \/ lock # None /\ lock # proof[a] /\ Goto(a, "restore")
    /\ UNCHANGED <<fence, fquar, listed, expired, dead, mine, fresh, expiries>>

(* No fence has appeared: judge the lock by what was read when it was moved, and
   remove it. *)
RemoveLock(a) ==
    /\ At(a, "lease")
    /\ \/ /\ moved[a] \in quar[a] /\ MayBeActive(a, moved[a])
          /\ Goto(a, "restore") /\ UNCHANGED <<quar, listed, moved>>
       \/ /\ moved[a] \notin quar[a] \/ MayBeStale(a, moved[a])
          /\ Again(a) /\ Drop({<<a, moved[a]>>}) /\ moved' = [moved EXCEPT ![a] = None]
    /\ UNCHANGED <<lock, fence, fquar, expired, proof, mine>>
    /\ UNCHANGED others

(* restoreQuarantinedStateLock, which waits while `path` is another file. *)
RestoreLock(a) ==
    /\ At(a, "restore")
    /\ moved[a] \in quar[a] => lock \in {None, moved[a]}
    /\ lock' = IF moved[a] \in quar[a] THEN moved[a] ELSE lock
    /\ Drop({<<a, moved[a]>>}) /\ moved' = [moved EXCEPT ![a] = None]
    /\ IF site[a] \in {"reclaim", "recheck"} THEN Again(a) ELSE Goto(a, "sweep")
    /\ UNCHANGED <<fence, fquar, expired, proof, mine>>
    /\ UNCHANGED others

-----------------------------------------------------------------------------
(***************************************************************************)
(* The commit fence and the release                                        *)
(***************************************************************************)
(* acquireStateCommitFence: a fence that is there makes the commit fail. *)
LinkFence(a) ==
    /\ At(a, "held")
    /\ IF fence = None
       THEN fence' = mine[a] /\ Goto(a, "assert")
       ELSE UNCHANGED fence /\ Call(a, "relinquish", "release")
    /\ UNCHANGED <<lock, quar, fquar, listed, expired, proof, moved, mine>>
    /\ UNCHANGED others

(* assertOwnedStateLock *)
StillOwned(a) == lock = mine[a]

(* Is `path` still this lock?  A commit looks twice: with the fence, and when the new
   state is written next to the old one.  A coordination lock does it with the fence
   only. *)
AssertOwned(a) ==
    /\ At(a, "assert") \/ At(a, "fenced")
    /\ IF StillOwned(a)
       THEN Goto(a, IF pc[a] = "assert" THEN "fenced" ELSE "publish")
       ELSE Call(a, "unfence", "release")
    /\ UNCHANGED <<fileVars, proof, moved, mine>> /\ UNCHANGED others

(* rename(temporary, path): the caller publishes the state that it computed from
   what it read. *)
Commit(a) ==
    /\ At(a, "publish")
    /\ fresh' = {}
    /\ Call(a, "unfence", "release")
    /\ UNCHANGED <<fileVars, dead, proof, moved, mine, expiries, crowded>>

(* The holder of a coordination lock is done. *)
Unlock(a) ==
    /\ At(a, "fenced")
    /\ Call(a, "unfence", "unlock")
    /\ UNCHANGED <<fileVars, proof, moved, mine>> /\ UNCHANGED others

(* The caller has nothing to publish (it failed, or only read). *)
Discard(a) ==
    /\ At(a, "held")
    /\ Call(a, "relinquish", "release")
    /\ UNCHANGED <<fileVars, proof, moved, mine>> /\ UNCHANGED others

(* relinquishOwnedStateCommitFence *)
ReleaseFence(a) ==
    /\ At(a, "unfence")
    /\ fence' = None
    /\ IF fence \in {None, mine[a]}
       THEN Goto(a, "relinquish") /\ UNCHANGED fquar
       ELSE Goto(a, "fenceRestore") /\ fquar' = [fquar EXCEPT ![a] = fence]
    /\ UNCHANGED <<lock, quar, listed, expired, proof, moved, mine>> /\ UNCHANGED others

(* relinquishOwnedStateLock: move `path` away, and put it back if it is not
   one's own. *)
Relinquish(a) ==
    /\ At(a, "relinquish")
    /\ lock' = None
    /\ IF lock \in {None, mine[a]}
       THEN Goto(a, "sweep") /\ UNCHANGED <<quar, moved>>
       ELSE /\ Goto(a, "restore")
            /\ quar' = [quar EXCEPT ![a] = @ \cup {lock}]
            /\ moved' = [moved EXCEPT ![a] = lock]
    /\ crowded' = (crowded \/ Crowds)
    /\ UNCHANGED <<fence, fquar, listed, expired, dead, proof, mine, fresh, expiries>>

(* retryAbandonedStateLockReleases, by a later acquisition of the process *)
RetryRelease(a) ==
    /\ At(a, "abandoned")
    /\ Goto(a, "relinquish")
    /\ UNCHANGED <<fileVars, proof, moved, mine>> /\ UNCHANGED others

(* Somebody may have moved it aside: remove it from the quarantines. *)
RemoveOwn(a) ==
    /\ At(a, "sweep")
    /\ Drop(Attempts \X {mine[a]})
    /\ mine' = [mine EXCEPT ![a] = None] /\ fresh' = fresh \ {a}
    /\ CASE site[a] = "backoff" -> Again(a)
         [] site[a] = "giveup"  -> Goto(a, "failed")
         [] site[a] \in {"release", "unlock"} -> Goto(a, "done")
    /\ UNCHANGED <<lock, fence, fquar, expired, dead, proof, moved, expiries, crowded>>

-----------------------------------------------------------------------------
(***************************************************************************)
(* The surroundings                                                        *)
(***************************************************************************)
(* The files of a dead process stay; what it was doing is over. *)
Crash(p) ==
    /\ p \notin dead /\ Cardinality(dead \ Gone) < MaxCrashes
    /\ \E a \in Attempts : ProcessOf[a] = p /\ pc[a] # "idle"
    /\ dead' = dead \cup {p}
    /\ pc' = [a \in Attempts |-> IF ProcessOf[a] = p THEN "failed" ELSE pc[a]]
    /\ moved' = [a \in Attempts |-> IF ProcessOf[a] = p THEN None ELSE moved[a]]
    /\ listed' = [a \in Attempts |-> IF ProcessOf[a] = p THEN {} ELSE listed[a]]
    /\ fresh' = {a \in fresh : ProcessOf[a] # p}
    /\ UNCHANGED <<lock, fence, quar, fquar, expired, site, proof, mine, expiries, crowded>>

(* Sixty seconds without the heartbeat of startStateLockHeartbeat: the owner is
   dead, or it was suspended for so long. *)
Expire(f) ==
    /\ f \notin expired
    /\ f = lock \/ \E b \in Attempts : f \in quar[b]
    /\ \E a \in Attempts : ~SameHost(a, f)
    /\ expired' = expired \cup {f}
    /\ \/ ~ProcessLives(f) /\ UNCHANGED expiries
       \/ ProcessLives(f) /\ expiries < MaxExpiries /\ expiries' = expiries + 1
    /\ UNCHANGED <<lock, fence, quar, fquar, listed, dead, attemptVars, fresh, crowded>>

Step(a) == \/ ProveFence(a) \/ ReadFence(a) \/ TakeFence(a) \/ RestoreFence(a)
           \/ ListNames(a) \/ ReadName(a) \/ EndLook(a) \/ Publish(a)
           \/ ProveLock(a) \/ ReadLock(a) \/ TakeLock(a) \/ RemoveLock(a)
           \/ RestoreLock(a)
           \/ LinkFence(a) \/ AssertOwned(a) \/ Commit(a) \/ Unlock(a)
           \/ Discard(a) \/ ReleaseFence(a) \/ Relinquish(a) \/ RetryRelease(a)
           \/ RemoveOwn(a)

Next == \/ \E a \in Attempts : Begin(a) \/ Step(a) \/ TimeOut(a)
        \/ \E p \in Processes : Crash(p)
        \/ \E f \in Files : Expire(f)

Spec == Init /\ [][Next]_vars

-----------------------------------------------------------------------------
(***************************************************************************)
(* Properties                                                              *)
(***************************************************************************)
TypeOK ==
    /\ lock \in Files \cup {None} /\ fence \in Files \cup {None}
    /\ quar \in [Attempts -> SUBSET Files]
    /\ fquar \in [Attempts -> Files \cup {None}]
    /\ proof \in [Attempts -> Files \cup {None}]
    /\ moved \in [Attempts -> Files \cup {None}]
    /\ mine \in [Attempts -> Files \cup {None}]
    /\ listed \in [Attempts -> SUBSET (Attempts \X Files)]
    /\ expired \subseteq Files /\ dead \subseteq Processes /\ crowded \in BOOLEAN
    /\ fresh \subseteq Attempts /\ expiries \in 0 .. MaxExpiries

(* At most one live attempt is between its ownership check and the release of
   its fence: the commit of a state file, the life of a coordination lock. *)
InSection(a) == At(a, "fenced") \/ At(a, "publish")
MutualExclusion ==
    \A a, b \in Attempts : InSection(a) /\ InSection(b) => a = b

(* Nobody publishes a state computed from a version that has been replaced: the
   state files are written whole, so the replaced version would be lost. *)
NoStaleCommit ==
    \A a \in Attempts : At(a, "publish") => a \in fresh

(* "Reclaimers fail closed while it exists": nobody else acquires the lock while
   its owner, live, is behind its commit fence. *)
FenceFailsClosed ==
    \A a, b \in Attempts : InSection(a) /\ At(b, "held") => a = b
(* withStateLock: one owner commits at a time, and none with a proof that is stale. *)
LockSafety == MutualExclusion /\ NoStaleCommit

-----------------------------------------------------------------------------
(***************************************************************************)
(* The inductive invariant behind LockSafety                               *)
(***************************************************************************)
Labels == {"idle", "fence", "fenceRead", "fenceTake", "fenceRestore", "quarantine", "reading",
           "blocked", "link", "held", "assert", "fenced", "publish", "unfence", "relinquish",
           "sweep", "prove", "lockRead", "take", "lease", "restore", "abandoned", "failed",
           "done"}
Sites == {"top", "published", "reclaim", "recheck", "backoff", "giveup", "release", "unlock"}

(* An owner file is its attempt's own, and what a dead process did is over. *)
Shapes ==
    /\ pc \in [Attempts -> Labels] /\ site \in [Attempts -> Sites]
    /\ quar \in [Attempts -> SUBSET Files]
    /\ listed \in [Attempts -> SUBSET (Attempts \X Files)]
    /\ mine \in [Attempts -> Files \cup {None}]
    /\ moved \in [Attempts -> Files \cup {None}]
    /\ lock \in Files \cup {None} /\ expiries \in Nat /\ crowded \in BOOLEAN
    /\ \A a \in Attempts : /\ mine[a] # None => mine[a][1] = a
                           /\ Owns(a) => mine[a] # None
                           /\ ProcessOf[a] \in dead => pc[a] = "failed"

(* What each operation is done for. *)
SitesAgree ==
    \A a \in Attempts :
      /\ pc[a] \in {"fence", "fenceRead", "fenceTake"} => site[a] \in {"top", "reclaim", "recheck"}
      /\ pc[a] = "fenceRestore" => site[a] \in {"top", "reclaim", "recheck", "release", "unlock"}
      /\ pc[a] \in Looking => site[a] \in {"top", "published"}
      /\ pc[a] \in {"prove", "lockRead", "take"} => site[a] = "reclaim"
      /\ pc[a] = "lease" => site[a] = "recheck"
      /\ pc[a] = "restore"
            => site[a] \in {"reclaim", "recheck", "backoff", "giveup", "release", "unlock"}
      /\ pc[a] = "unfence" => site[a] \in {"release", "unlock"}
      /\ pc[a] \in {"relinquish", "sweep"} => site[a] \in {"backoff", "giveup", "release", "unlock"}
      /\ pc[a] = "abandoned" => site[a] \in {"giveup", "release", "unlock"}

(* The lock of a live process is never lost: it is in its place, or in a quarantine. *)
InQuarantine(f) == \E c \in Attempts : f \in quar[c]
LocksKept ==
    /\ \A f \in expired : ~ProcessLives(f)
    /\ \A a \in Attempts : Owns(a) => lock = mine[a] \/ InQuarantine(mine[a])

(* a will still find the name that c gave to the file f. *)
Sees(a, c, f) == \/ pc[a] \in {"quarantine", "blocked"}
                 \/ pc[a] = "reading" /\ <<c, f>> \in listed[a]

(* Of two that own a lock one has it in its place, and will find that of the other. *)
Overlap(a, b) == /\ lock = mine[a]
                 /\ \E c \in Attempts : mine[b] \in quar[c] /\ Sees(a, c, mine[b])
OneHolder ==
    /\ \A a, b \in Attempts : Owns(a) /\ Owns(b) /\ a # b => Overlap(a, b) \/ Overlap(b, a)
    /\ \A a \in Attempts : pc[a] \in Holding => a \in fresh

(* The first half as long as no lease has expired under a live owner, the second as long
   as moreover nobody has moved the lock of one of two owners aside. *)
LockInv ==
    /\ Shapes /\ SitesAgree
    /\ expiries = 0 => LocksKept /\ (~crowded => OneHolder)
=============================================================================
