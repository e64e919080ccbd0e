------------------------- MODULE ThreadLeasesProofs -------------------------
(***************************************************************************)
(* Proofs about ThreadLeases, for every set of tasks, of holders and of    *)
(* callers of start, every limit on leases and any number of failures.     *)
(***************************************************************************)
EXTENDS ThreadLeases, FiniteSetTheorems, TLAPS

USE HoldersAssumption, NoneAssumption

(* The steps of the manager, one by one. *)
LEMMA NextCases ==
    ASSUME Next
    PROVE  \/ \E h \in Holders : Acquire(h)
           \/ \E h \in Holders : AfterDisposal(h)
           \/ \E h \in Holders : Start(h)
           \/ \E h \in Holders : Initialized(h)
           \/ \E h \in Holders : StartAfterDisposal(h)
           \/ \E h \in Holders : Attach(h)
           \/ \E h \in Holders : Release(h)
           \/ \E h \in Holders : CloseOwner(h)
           \/ \E h \in Holders : NoteTurnStarted(h)
           \/ \E h \in Holders, s \in {"idle", "active", "systemError"} : Adopt(h, s)
           \/ \E l \in Leases : Connected(l)
           \/ \E l \in Leases : Closed(l)
           \/ \E l \in Leases, why \in {"idle", "lost"} : Sweep(l, why)
           \/ \E l \in Leases : Ask(l)
           \/ \E l \in Leases : Answer(l)
           \/ \E l \in Leases : Lose(l)
           \/ \E l \in Leases, n \in Notifications : Notify(l, n)
           \/ \E t \in Tasks : CloseThread(t)
           \/ CloseManager
BY Zenon DEF Next, HolderStep, LeaseStep

-----------------------------------------------------------------------------
(***************************************************************************)
(* Types                                                                   *)
(***************************************************************************)
(* Disposing of a lease, or not, keeps the types of what it may change. *)
LEMMA DisposeType ==
    ASSUME TypeOK, NEW l \in Leases, NEW r,
           \/ Dispose(l) /\ phase[l] = "open" /\ task[l] # None
           \/ DisposeIfIdle(l, r) /\ (phase[l] = "open" => task[l] # None)
    PROVE  /\ leases' \in [Tasks -> Leases \cup {None}]
           /\ disposing' \in [Tasks -> Leases \cup {None}]
           /\ phase' \in [Leases -> {"free", "connecting", "open", "closing", "gone"}]
           /\ asks' \in [Leases -> {0, 1}]
BY SMTT(30) DEF TypeOK, Dispose, DisposeIfIdle, Disposable, CloseLease

(* Every step keeps the types. *)
LEMMA TypeStep ==
    ASSUME TypeOK, ClientsKnown, HoldersKnown, MapsAgree, Next
    PROVE  TypeOK'
<1> USE LeaseBoundsAssumption
<1>1. ASSUME NEW h \in Holders, GetOrCreate(h)
      PROVE  /\ creating' \in [Tasks -> Leases \cup {None}]
             /\ phase' \in [Leases -> {"free", "connecting", "open", "closing", "gone"}]
             /\ task' \in [Leases -> Tasks \cup {None}]
             /\ pc' \in [Holders -> {"idle", "disposal", "attach", "holding", "starting",
                                     "abandoning", "refused"}]
             /\ at' \in [Holders -> Leases \cup {None}]
  <2>1. TaskOf[h] \in Tasks
    OBVIOUS
  <2>2. CASE \E l \in Leases : /\ phase' = [phase EXCEPT ![l] = "connecting"]
                              /\ task' = [task EXCEPT ![l] = TaskOf[h]]
                              /\ creating' = [creating EXCEPT ![TaskOf[h]] = l]
                              /\ Goto(h, "attach", l)
    BY <2>1, <2>2 DEF Goto, TypeOK
  <2>3. CASE \E l \in Leases \cup {None}, label \in {"attach", "refused"} :
               Goto(h, label, l) /\ UNCHANGED <<creating, phase, task>>
    BY <2>3 DEF Goto, TypeOK
  <2>4. leases[TaskOf[h]] \in Leases \cup {None} /\ creating[TaskOf[h]] \in Leases \cup {None}
    BY <2>1 DEF TypeOK
  <2>5. QED
    BY <1>1, <2>2, <2>3, <2>4 DEF GetOrCreate
<1>2. ASSUME NEW h \in Holders, Acquire(h) PROVE TypeOK'
  <2>1. TaskOf[h] \in Tasks
    OBVIOUS
  <2>2. CASE ~closed /\ ~MustWait(TaskOf[h]) /\ GetOrCreate(h) /\ UNCHANGED awaits
    BY <1>1, <1>2, <2>2 DEF Acquire, acquireFrame, historyVars, TypeOK
  <2>3. CASE closed /\ Goto(h, "refused", None) /\ UNCHANGED <<creating, phase, task, awaits>>
    BY <1>2, <2>3 DEF Acquire, acquireFrame, historyVars, Goto, TypeOK
  <2>4. CASE /\ ~closed /\ MustWait(TaskOf[h]) /\ Goto(h, "disposal", None)
             /\ awaits' = [awaits EXCEPT ![h] = disposing[TaskOf[h]]]
             /\ UNCHANGED <<creating, phase, task>>
    BY <1>2, <2>4 DEF Acquire, acquireFrame, historyVars, Goto, TypeOK
  <2>5. QED
    BY <1>2, <2>2, <2>3, <2>4 DEF Acquire
<1>3. ASSUME NEW h \in Holders, AfterDisposal(h) PROVE TypeOK'
  <2>1. CASE GetOrCreate(h)
    BY <1>1, <1>3, <2>1 DEF AfterDisposal, acquireFrame, historyVars, TypeOK
  <2>2. CASE Goto(h, "refused", None) /\ UNCHANGED <<creating, phase, task>>
    BY <1>3, <2>2 DEF AfterDisposal, acquireFrame, historyVars, Goto, TypeOK
  <2>3. QED
    BY <1>3, <2>1, <2>2 DEF AfterDisposal
<1>4. ASSUME NEW h \in Holders, Start(h) PROVE TypeOK'
  BY <1>4 DEF Start, Goto, historyVars, TypeOK
<1>5. ASSUME NEW h \in Holders, AbandonStart(h) \/ BindStarted(h), at[h] \in Leases
      PROVE  /\ leases' \in [Tasks -> Leases \cup {None}]
             /\ starting' \subseteq Leases
             /\ phase' \in [Leases -> {"free", "connecting", "open", "closing", "gone"}]
             /\ task' \in [Leases -> Tasks \cup {None}]
             /\ refs' \in [Leases -> SUBSET Holders]
             /\ asks' \in [Leases -> {0, 1}]
             /\ pc' \in [Holders -> {"idle", "disposal", "attach", "holding", "starting",
                                     "abandoning", "refused"}]
             /\ at' \in [Holders -> Leases \cup {None}]
  <2>1. CASE AbandonStart(h)
    BY <1>5, <2>1 DEF AbandonStart, CloseLease, Goto, TypeOK
  <2>2. CASE BindStarted(h) /\ ~AbandonStart(h)
    <3>1. TaskOf[h] \in Tasks
      OBVIOUS
    <3>2. /\ phase' = [phase EXCEPT ![at[h]] = "open"]
          /\ task' = [task EXCEPT ![at[h]] = TaskOf[h]]
          /\ leases' = [leases EXCEPT ![TaskOf[h]] = at[h]]
          /\ starting' = starting \ {at[h]}
          /\ refs' = [refs EXCEPT ![at[h]] = {h}]
          /\ Goto(h, "holding", at[h]) /\ UNCHANGED asks
      BY <2>2 DEF BindStarted
    <3>3. QED
      BY <1>5, <3>1, <3>2 DEF Goto, TypeOK
  <2>3. QED
    BY <1>5, <2>1, <2>2
<1>6. ASSUME NEW h \in Holders, Initialized(h) PROVE TypeOK'
  <2>1. at[h] \in Leases
    BY <1>6 DEF Initialized, HoldersKnown, HolderKnown, Starting, TypeOK
  <2>2. CASE (AbandonStart(h) \/ BindStarted(h)) /\ UNCHANGED awaits
    BY <1>5, <1>6, <2>1, <2>2 DEF Initialized, startFrame, Fail, TypeOK
  <2>3. CASE /\ Goto(h, "disposal", at[h])
             /\ awaits' = [awaits EXCEPT ![h] = disposing[TaskOf[h]]]
             /\ UNCHANGED <<phase, asks, leases, starting, task, refs, failures>>
    BY <1>6, <2>1, <2>3 DEF Initialized, startFrame, Goto, TypeOK
  <2>4. QED
    BY <1>6, <2>2, <2>3 DEF Initialized
<1>7. ASSUME NEW h \in Holders, StartAfterDisposal(h) PROVE TypeOK'
  <2>1. at[h] \in Leases
    BY <1>7 DEF StartAfterDisposal, HoldersKnown, HolderKnown, Starting, TypeOK
  <2>2. AbandonStart(h) \/ BindStarted(h)
    BY <1>7 DEF StartAfterDisposal
  <2>3. QED
    BY <1>5, <1>7, <2>1, <2>2 DEF StartAfterDisposal, startFrame, TypeOK
<1>8. ASSUME NEW h \in Holders, Attach(h) PROVE TypeOK'
  <2>1. at[h] \in Leases /\ (phase[at[h]] = "open" => task[at[h]] # None)
    BY <1>8 DEF Attach, HoldersKnown, HolderKnown, ClientsKnown
  <2>2. CASE DisposeIfIdle(at[h], refs[at[h]]) /\ Goto(h, "refused", None) /\ UNCHANGED refs
    <3>1. /\ leases' \in [Tasks -> Leases \cup {None}]
          /\ disposing' \in [Tasks -> Leases \cup {None}]
          /\ phase' \in [Leases -> {"free", "connecting", "open", "closing", "gone"}]
          /\ asks' \in [Leases -> {0, 1}]
      BY <2>1, <2>2, DisposeType
    <3>2. QED
      BY <1>8, <2>2, <3>1 DEF Attach, Goto, historyVars, TypeOK
  <2>3. CASE UNCHANGED <<leases, disposing, phase, asks>>
    BY <1>8, <2>1, <2>3, SMTT(30) DEF Attach, Goto, historyVars, TypeOK
  <2>4. QED
    BY <1>8, <2>2, <2>3 DEF Attach
<1>9. ASSUME NEW h \in Holders, Release(h) PROVE TypeOK'
  <2>1. at[h] \in Leases /\ (phase[at[h]] = "open" => task[at[h]] # None)
    BY <1>9 DEF Release, HoldersKnown, HolderKnown, ClientsKnown
  <2>2. /\ leases' \in [Tasks -> Leases \cup {None}]
        /\ disposing' \in [Tasks -> Leases \cup {None}]
        /\ phase' \in [Leases -> {"free", "connecting", "open", "closing", "gone"}]
        /\ asks' \in [Leases -> {0, 1}]
    BY <1>9, <2>1, DisposeType DEF Release
  <2>3. QED
    BY <1>9, <2>1, <2>2 DEF Release, Goto, historyVars, TypeOK
<1>10. ASSUME NEW h \in Holders, CloseOwner(h) PROVE TypeOK'
  BY <1>10 DEF CloseOwner, Goto, managerVars, leaseVars, historyVars, TypeOK
<1>11. ASSUME noteFrame, state' \in [Leases -> States], asks' \in [Leases -> {0, 1}],
              sweeps' \in [Leases -> SUBSET {"idle", "lost"}]
       PROVE  TypeOK'
  BY <1>11 DEF noteFrame, managerVars, holderVars, historyVars, TypeOK
<1>12. ASSUME NEW h \in Holders, NoteTurnStarted(h) PROVE TypeOK'
  BY <1>11, <1>12 DEF NoteTurnStarted, Busy, States, TypeOK
<1>13. ASSUME NEW h \in Holders, NEW s \in {"idle", "active", "systemError"}, Adopt(h, s)
       PROVE  TypeOK'
  BY <1>11, <1>13 DEF Adopt, Busy, States, TypeOK
<1>14. ASSUME NEW l \in Leases, Connected(l) PROVE TypeOK'
  <2>1. task[l] \in Tasks
    BY <1>14 DEF Connected, ClientsKnown, TypeOK
  <2>2. QED
    BY <1>14, <2>1 DEF Connected, holderVars, TypeOK
<1>15. ASSUME NEW l \in Leases, Closed(l) PROVE TypeOK'
  BY <1>15 DEF Closed, Fail, States, TypeOK
<1>16. ASSUME NEW l \in Leases, NEW why \in {"idle", "lost"}, Sweep(l, why) PROVE TypeOK'
  <2>1. /\ leases' \in [Tasks -> Leases \cup {None}]
        /\ disposing' \in [Tasks -> Leases \cup {None}]
        /\ phase' \in [Leases -> {"free", "connecting", "open", "closing", "gone"}]
        /\ asks' \in [Leases -> {0, 1}]
    BY <1>16, DisposeType DEF Sweep, ClientsKnown
  <2>2. QED
    BY <1>16, <2>1 DEF Sweep, holderVars, historyVars, TypeOK
<1>17. ASSUME NEW l \in Leases, Ask(l) PROVE TypeOK'
  BY <1>11, <1>17 DEF Ask, States, TypeOK
<1>18. ASSUME NEW l \in Leases, Answer(l) PROVE TypeOK'
  BY <1>11, <1>18 DEF Answer, States, TypeOK
<1>19. ASSUME NEW l \in Leases, Lose(l) PROVE TypeOK'
  BY <1>19 DEF Lose, Fail, managerVars, holderVars, States, TypeOK
<1>20. ASSUME NEW l \in Leases, NEW n \in Notifications, Notify(l, n) PROVE TypeOK'
  BY <1>11, <1>20 DEF Notify, UpdatedState, States, TypeOK
<1>21. ASSUME NEW t \in Tasks, CloseThread(t) PROVE TypeOK'
  BY <1>21 DEF CloseThread, CloseLease, holderVars, TypeOK
<1>22. CASE CloseManager
  BY <1>22 DEF CloseManager, NoLeases, holderVars, TypeOK
<1>23. QED
  BY NextCases, <1>2, <1>3, <1>4, <1>6, <1>7, <1>8, <1>9, <1>10, <1>12, <1>13, <1>14,
     <1>15, <1>16, <1>17, <1>18, <1>19, <1>20, <1>21, <1>22

-----------------------------------------------------------------------------
(***************************************************************************)
(* The maps, the clients and the holders                                   *)
(***************************************************************************)
Bookkeeping == MapsAgree /\ ClientsKnown /\ HoldersKnown /\ DisposalsAwaited /\ HeldLeaseStays

(* Holders go away, and the lease that nobody refers to any more, or whose client
   is lost, may be disposed of. *)
LEMMA HoldersLeave ==
    ASSUME TypeOK, TypeOK', Bookkeeping,
           UNCHANGED <<creating, starting, closed, task, evicted, deleted>>,
           \A x \in Holders :
              \/ pc'[x] = pc[x] /\ at'[x] = at[x] /\ awaits'[x] = awaits[x]
              \/ pc'[x] \in {"idle", "refused"},
           \A m \in Leases, x \in Holders :
              x \in refs'[m] <=> x \in refs[m] /\ pc'[x] = "holding",
           \A m \in Leases : "lost" \in sweeps'[m] => "lost" \in sweeps[m],
           \A x \in Starters : pc[x] = "holding" /\ pc'[x] # "holding" => NoMicrotasks,
           \/ UNCHANGED <<leases, disposing, phase>>
           \/ \E l \in Leases :
                 /\ phase[l] = "open"
                 /\ refs'[l] = {} \/ "lost" \in sweeps[l]
                 /\ leases' = [leases EXCEPT ![task[l]] = None]
                 /\ disposing' = [disposing EXCEPT ![task[l]] = l]
                 /\ phase' = [phase EXCEPT ![l] = "closing"]
    PROVE  Bookkeeping'
<1>1. \A h \in Holders : /\ pc[h] = "disposal" /\ phase[awaits[h]] = "gone"
                         => ~NoMicrotasks
  BY DEF NoMicrotasks, Ready
<1>2. ASSUME NEW h \in Holders
      PROVE  /\ Starting(h)' => Starting(h)
             /\ pc'[h] \notin {"idle", "refused"} =>
                   pc'[h] = pc[h] /\ at'[h] = at[h] /\ awaits'[h] = awaits[h]
  BY DEF Starting
<1>3. \A m \in Leases : phase'[m] = phase[m] \/ (phase[m] = "open" /\ phase'[m] = "closing")
  BY DEF TypeOK
<1>4. HoldersKnown'
  <2>1. ASSUME NEW h \in Holders PROVE HolderKnown(h)'
    <3>1. Starting(h)' \/ pc'[h] \in {"starting", "abandoning"} =>
            pc'[h] = pc[h] /\ at'[h] = at[h]
      BY <1>2 DEF Starting
    <3>2. starting \subseteq Leases /\ HolderKnown(h)
      BY DEF TypeOK, Bookkeeping, HoldersKnown
    <3>3. Starting(h)' => at'[h] \in starting /\ phase'[at'[h]] = "connecting"
      BY <1>2, <1>3, <3>1, <3>2 DEF HolderKnown
    <3>4. QED
      BY <1>2, <1>3, <3>1, <3>2, <3>3 DEF HolderKnown
  <2>2. \A h, g \in Holders : h # g /\ Starting(h)' /\ Starting(g)' => at'[h] # at'[g]
    BY <1>2 DEF Bookkeeping, HoldersKnown, Starting
  <2>3. \A m \in Leases : \A h \in refs'[m] : pc'[h] = "holding" /\ at'[h] = m
    <3> SUFFICES ASSUME NEW m \in Leases, NEW h \in refs'[m]
                 PROVE  pc'[h] = "holding" /\ at'[h] = m
      OBVIOUS
    <3>1. h \in Holders
      BY DEF TypeOK
    <3>2. h \in refs[m] /\ pc'[h] = "holding"
      BY <3>1
    <3>3. QED
      BY <1>2, <3>1, <3>2 DEF Bookkeeping, HoldersKnown, HolderKnown
  <2>4. QED
    BY <2>1, <2>2, <2>3 DEF HoldersKnown
<1>5. CASE UNCHANGED <<leases, disposing, phase>>
  <2>1. MapsAgree'
    BY <1>5 DEF Bookkeeping, MapsAgree, NoLeases
  <2>2. ClientsKnown'
    BY <1>5 DEF Bookkeeping, ClientsKnown
  <2>3. DisposalsAwaited'
    <3> SUFFICES ASSUME NEW h \in Holders, pc'[h] = "disposal"
                 PROVE  Awaited(h)'
      BY DEF DisposalsAwaited
    <3>1. pc[h] = "disposal" /\ awaits'[h] = awaits[h]
      BY <1>2
    <3>2. ASSUME phase[awaits[h]] = "gone", NEW m \in Leases, refs[m] \cap Starters # {}
          PROVE  refs'[m] \cap Starters # {}
      <4>1. PICK x \in Starters : x \in refs[m]
        BY <3>2
      <4>2. pc[x] = "holding" /\ x \in Holders
        BY <4>1, <3>2 DEF Bookkeeping, HoldersKnown, HolderKnown
      <4>3. QED
        BY <1>1, <3>1, <3>2, <4>1, <4>2
    <3>3. leases[TaskOf[h]] \in Leases \cup {None}
      BY DEF TypeOK
    <3>4. QED
      BY <1>5, <3>1, <3>2, <3>3 DEF Bookkeeping, DisposalsAwaited, Awaited
  <2>4. HeldLeaseStays'
    <3>1. ASSUME NEW h \in Holders, pc'[h] = "holding"
          PROVE  pc[h] = "holding" /\ at'[h] = at[h] /\ at[h] \in Leases
      BY <1>2, <3>1 DEF Bookkeeping, HoldersKnown, HolderKnown
    <3>2. QED
      BY <1>5, <3>1 DEF Bookkeeping, HeldLeaseStays
  <2>5. QED
    BY <1>4, <2>1, <2>2, <2>3, <2>4 DEF Bookkeeping
<1>6. ASSUME NEW l \in Leases, phase[l] = "open", refs'[l] = {} \/ "lost" \in sweeps[l],
             leases' = [leases EXCEPT ![task[l]] = None],
             disposing' = [disposing EXCEPT ![task[l]] = l],
             phase' = [phase EXCEPT ![l] = "closing"]
      PROVE  Bookkeeping'
  <2>1. /\ task[l] \in Tasks /\ leases[task[l]] = l /\ creating[task[l]] = None
        /\ disposing[task[l]] = None /\ ~closed
    BY <1>6 DEF Bookkeeping, MapsAgree, ClientsKnown, NoLeases, TypeOK
  <2>2. MapsAgree'
    BY <1>6, <2>1 DEF Bookkeeping, MapsAgree, NoLeases, TypeOK
  <2>3. ClientsKnown'
    BY <1>6, <2>1 DEF Bookkeeping, MapsAgree, ClientsKnown, TypeOK
  <2>4. DisposalsAwaited'
    <3> SUFFICES ASSUME NEW h \in Holders, pc'[h] = "disposal"
                 PROVE  Awaited(h)'
      BY DEF DisposalsAwaited
    <3>1. pc[h] = "disposal" /\ awaits'[h] = awaits[h] /\ awaits[h] # l
      BY <1>2, <1>6 DEF Bookkeeping, HoldersKnown, HolderKnown
    <3>2. ASSUME phase[awaits[h]] = "gone", NEW m \in Leases, refs[m] \cap Starters # {}
          PROVE  refs'[m] \cap Starters # {}
      <4>1. PICK x \in Starters : x \in refs[m]
        BY <3>2
      <4>2. pc[x] = "holding" /\ x \in Holders
        BY <4>1, <3>2 DEF Bookkeeping, HoldersKnown, HolderKnown
      <4>3. QED
        BY <1>1, <3>1, <3>2, <4>1, <4>2
    <3>3. leases[TaskOf[h]] \in Leases \cup {None} /\ TaskOf[h] \in Tasks
      BY DEF TypeOK
    <3>4. phase'[awaits[h]] = phase[awaits[h]]
      BY <1>6, <3>1 DEF TypeOK
    <3>5. CASE TaskOf[h] = task[l]
      <4>1. phase[awaits[h]] # "gone"
        BY <1>6, <2>1, <3>1, <3>2, <3>5 DEF Bookkeeping, DisposalsAwaited, Awaited
      <4>2. phase[awaits[h]] # "closing"
        BY <2>1, <3>1, <3>5 DEF Bookkeeping, DisposalsAwaited, Awaited, HoldersKnown, HolderKnown
      <4>3. QED
        BY <3>1, <3>4, <4>1, <4>2 DEF Awaited
    <3>6. CASE TaskOf[h] # task[l]
      <4>1. /\ leases'[TaskOf[h]] = leases[TaskOf[h]]
            /\ disposing'[TaskOf[h]] = disposing[TaskOf[h]]
        BY <1>6, <3>3, <3>6 DEF TypeOK
      <4>2. QED
        BY <3>1, <3>2, <3>3, <3>4, <4>1 DEF Bookkeeping, DisposalsAwaited, Awaited
    <3>7. QED
      BY <3>5, <3>6
  <2>5. HeldLeaseStays'
    <3> SUFFICES ASSUME NEW h \in Holders, pc'[h] = "holding"
                 PROVE  \/ phase'[at'[h]] = "open" /\ h \in refs'[at'[h]]
                        \/ at'[h] \in evicted' \cup deleted'
      BY DEF HeldLeaseStays
    <3>1. pc[h] = "holding" /\ at'[h] = at[h] /\ at[h] \in Leases
      BY <1>2 DEF Bookkeeping, HoldersKnown, HolderKnown
    <3>2. CASE at[h] = l
      BY <1>6, <3>1, <3>2 DEF Bookkeeping, HeldLeaseStays, ClientsKnown
    <3>3. CASE at[h] # l
      <4>1. phase'[at[h]] = phase[at[h]]
        BY <1>6, <3>1, <3>3 DEF TypeOK
      <4>2. QED
        BY <3>1, <4>1 DEF Bookkeeping, HeldLeaseStays
    <3>4. QED
      BY <3>2, <3>3
  <2>6. QED
    BY <1>4, <2>2, <2>3, <2>4, <2>5 DEF Bookkeeping
<1>7. QED
  BY <1>5, <1>6

(* A holder waits for a lease, or for a disposal. *)
LEMMA HolderWaits ==
    ASSUME TypeOK, TypeOK', Bookkeeping, NEW h \in Holders, NEW l, NEW d,
           UNCHANGED <<leases, creating, disposing, starting, closed, phase, task, refs,
                       sweeps, evicted, deleted>>,
           pc[h] \in {"idle", "disposal", "starting"},
           at' = [at EXCEPT ![h] = l], awaits' = [awaits EXCEPT ![h] = d],
           \/ /\ pc' = [pc EXCEPT ![h] = "attach"]
              /\ l \in Leases \ starting /\ phase[l] # "free"
           \/ /\ pc' = [pc EXCEPT ![h] = "disposal"]
              /\ d = disposing[TaskOf[h]] /\ d # None
              /\ h \in Starters => pc[h] = "starting" /\ l = at[h]
    PROVE  Bookkeeping'
<1>1. /\ pc'[h] \in {"attach", "disposal"} /\ at'[h] = l /\ awaits'[h] = d
      /\ \A g \in Holders \ {h} :
            pc'[g] = pc[g] /\ at'[g] = at[g] /\ awaits'[g] = awaits[g]
  BY DEF TypeOK
<1>2. MapsAgree' /\ ClientsKnown'
  BY DEF Bookkeeping, MapsAgree, ClientsKnown, NoLeases
<1>3. pc'[h] = "disposal" =>
         d \in Leases /\ phase[d] = "closing" /\ d = disposing[TaskOf[h]]
  BY <1>1 DEF TypeOK, Bookkeeping, MapsAgree
<1>4. \A g \in Holders : Starting(g)' => Starting(g) /\ at'[g] = at[g]
  BY <1>1 DEF Starting, TypeOK
<1>5. HoldersKnown'
  <2>1. \A g \in Holders \ {h} : HolderKnown(g)'
    BY <1>1 DEF Bookkeeping, HoldersKnown, HolderKnown, Starting
  <2>2. HolderKnown(h)'
    <3>1. Starting(h)' => at'[h] \in starting /\ phase[at'[h]] = "connecting"
      BY <1>4 DEF Bookkeeping, HoldersKnown, HolderKnown
    <3>2. QED
      BY <1>1, <1>3, <3>1 DEF HolderKnown, TypeOK
  <2>3. \A m \in Leases : \A g \in refs[m] : pc'[g] = "holding" /\ at'[g] = m
    BY <1>1 DEF Bookkeeping, HoldersKnown, TypeOK
  <2>4. \A g, x \in Holders : g # x /\ Starting(g)' /\ Starting(x)' => at'[g] # at'[x]
    BY <1>4 DEF Bookkeeping, HoldersKnown
  <2>5. QED
    BY <2>1, <2>2, <2>3, <2>4 DEF HoldersKnown
<1>6. DisposalsAwaited'
  <2>1. \A g \in Holders \ {h} : pc'[g] = "disposal" => Awaited(g)'
    BY <1>1 DEF Bookkeeping, DisposalsAwaited, Awaited
  <2>2. pc'[h] = "disposal" => Awaited(h)'
    BY <1>1, <1>3 DEF Awaited
  <2>3. QED
    BY <2>1, <2>2 DEF DisposalsAwaited
<1>7. HeldLeaseStays'
  BY <1>1 DEF Bookkeeping, HeldLeaseStays
<1>8. QED
  BY <1>2, <1>5, <1>6, <1>7 DEF Bookkeeping

(* #create begins. *)
LEMMA CreateStep ==
    ASSUME TypeOK, TypeOK', Bookkeeping, NEW h \in Holders, NEW l \in Leases, NEW d,
           UNCHANGED <<leases, disposing, starting, closed, refs, sweeps, evicted, deleted>>,
           pc[h] \in {"idle", "disposal"},
           leases[TaskOf[h]] = None, creating[TaskOf[h]] = None, disposing[TaskOf[h]] = None,
           phase[l] = "free",
           phase' = [phase EXCEPT ![l] = "connecting"], task' = [task EXCEPT ![l] = TaskOf[h]],
           creating' = [creating EXCEPT ![TaskOf[h]] = l],
           pc' = [pc EXCEPT ![h] = "attach"], at' = [at EXCEPT ![h] = l],
           awaits' = [awaits EXCEPT ![h] = d]
    PROVE  Bookkeeping'
<1>1. /\ pc'[h] = "attach" /\ at'[h] = l
      /\ \A g \in Holders \ {h} :
            pc'[g] = pc[g] /\ at'[g] = at[g] /\ awaits'[g] = awaits[g]
  BY DEF TypeOK
<1>2. TaskOf[h] \in Tasks /\ l \notin starting
  BY DEF Bookkeeping, ClientsKnown
<1>3. MapsAgree'
  BY <1>2 DEF Bookkeeping, MapsAgree, NoLeases, TypeOK
<1>4. ClientsKnown'
  BY <1>2 DEF Bookkeeping, MapsAgree, ClientsKnown, TypeOK
<1>5. HoldersKnown'
  <2>1. \A g \in Holders \ {h} : HolderKnown(g)'
    BY <1>1, <1>2 DEF Bookkeeping, HoldersKnown, HolderKnown, Starting, TypeOK
  <2>2. HolderKnown(h)'
    BY <1>1, <1>2 DEF HolderKnown, Starting, TypeOK
  <2>3. \A m \in Leases : \A g \in refs[m] : pc'[g] = "holding" /\ at'[g] = m
    BY <1>1 DEF Bookkeeping, HoldersKnown, TypeOK
  <2>4. \A g, x \in Holders : g # x /\ Starting(g)' /\ Starting(x)' => at'[g] # at'[x]
    BY <1>1 DEF Bookkeeping, HoldersKnown, Starting
  <2>5. QED
    BY <2>1, <2>2, <2>3, <2>4 DEF HoldersKnown
<1>6. DisposalsAwaited'
  <2>1. \A g \in Holders : pc'[g] = "disposal" =>
           /\ pc[g] = "disposal" /\ awaits'[g] = awaits[g]
           /\ phase'[awaits[g]] = phase[awaits[g]]
    BY <1>1, SMTT(30) DEF Bookkeeping, HoldersKnown, HolderKnown, TypeOK
  <2>2. QED
    BY <2>1 DEF Bookkeeping, DisposalsAwaited, Awaited
<1>7. HeldLeaseStays'
  BY <1>1 DEF Bookkeeping, HeldLeaseStays, HoldersKnown, HolderKnown, TypeOK
<1>8. QED
  BY <1>3, <1>4, <1>5, <1>6, <1>7 DEF Bookkeeping

(* start makes a provisional client. *)
LEMMA StartStep ==
    ASSUME TypeOK, TypeOK', Bookkeeping, NEW h \in Holders, NEW l \in Leases,
           UNCHANGED <<leases, creating, disposing, closed, task, refs, sweeps, awaits,
                       evicted, deleted>>,
           h \in Starters, pc[h] = "idle", phase[l] = "free",
           phase' = [phase EXCEPT ![l] = "connecting"], starting' = starting \cup {l},
           pc' = [pc EXCEPT ![h] = "starting"], at' = [at EXCEPT ![h] = l]
    PROVE  Bookkeeping'
<1>1. /\ pc'[h] = "starting" /\ at'[h] = l
      /\ \A g \in Holders \ {h} : pc'[g] = pc[g] /\ at'[g] = at[g]
  BY DEF TypeOK
<1>2. l \notin starting
  BY DEF Bookkeeping, ClientsKnown
<1>3. MapsAgree'
  BY DEF Bookkeeping, MapsAgree, NoLeases, TypeOK
<1>4. ClientsKnown'
  BY DEF Bookkeeping, ClientsKnown, TypeOK
<1>5. HoldersKnown'
  <2>1. \A g \in Holders \ {h} : HolderKnown(g)'
    BY <1>1, <1>2 DEF Bookkeeping, HoldersKnown, HolderKnown, Starting, TypeOK
  <2>2. HolderKnown(h)'
    BY <1>1 DEF HolderKnown, Starting, TypeOK
  <2>3. \A m \in Leases : \A g \in refs[m] : pc'[g] = "holding" /\ at'[g] = m
    BY <1>1 DEF Bookkeeping, HoldersKnown, TypeOK
  <2>4. \A g, x \in Holders : g # x /\ Starting(g)' /\ Starting(x)' => at'[g] # at'[x]
    BY <1>1, <1>2 DEF Bookkeeping, HoldersKnown, HolderKnown, Starting
  <2>5. QED
    BY <2>1, <2>2, <2>3, <2>4 DEF HoldersKnown
<1>6. DisposalsAwaited'
  <2>1. \A g \in Holders : pc'[g] = "disposal" =>
           pc[g] = "disposal" /\ phase'[awaits[g]] = phase[awaits[g]]
    BY <1>1 DEF Bookkeeping, HoldersKnown, HolderKnown, TypeOK
  <2>2. QED
    BY <2>1 DEF Bookkeeping, DisposalsAwaited, Awaited
<1>7. HeldLeaseStays'
  BY <1>1 DEF Bookkeeping, HeldLeaseStays, HoldersKnown, HolderKnown, TypeOK
<1>8. QED
  BY <1>3, <1>4, <1>5, <1>6, <1>7 DEF Bookkeeping

(* The error path of start. *)
LEMMA AbandonStep ==
    ASSUME TypeOK, TypeOK', Bookkeeping, NEW h \in Holders, NEW d, Starting(h),
           UNCHANGED <<leases, creating, disposing, starting, closed, task, refs, sweeps,
                       evicted, deleted>>,
           phase' = [phase EXCEPT ![at[h]] = "closing"],
           pc' = [pc EXCEPT ![h] = "abandoning"], at' = [at EXCEPT ![h] = at[h]],
           awaits' = [awaits EXCEPT ![h] = d]
    PROVE  Bookkeeping'
<1> DEFINE l == at[h]
<1>1. /\ pc'[h] = "abandoning" /\ at' = at
      /\ \A g \in Holders \ {h} : pc'[g] = pc[g] /\ awaits'[g] = awaits[g]
  BY DEF TypeOK
<1>2. l \in Leases /\ l \in starting /\ phase[l] = "connecting"
  BY DEF Bookkeeping, HoldersKnown, HolderKnown, TypeOK
<1>3. MapsAgree'
  BY <1>2 DEF Bookkeeping, MapsAgree, NoLeases, TypeOK
<1>4. ClientsKnown'
  BY <1>2 DEF Bookkeeping, ClientsKnown, TypeOK
<1>5. HoldersKnown'
  <2>1. \A g \in Holders \ {h} : HolderKnown(g)'
    <3> SUFFICES ASSUME NEW g \in Holders \ {h} PROVE HolderKnown(g)'
      OBVIOUS
    <3>1. Starting(g)' <=> Starting(g)
      BY <1>1 DEF Starting
    <3>2. Starting(g) => at[g] # l
      BY DEF Bookkeeping, HoldersKnown
    <3>3. HolderKnown(g)
      BY DEF Bookkeeping, HoldersKnown
    <3>4. QED
      BY <1>1, <1>2, <3>1, <3>2, <3>3 DEF HolderKnown, TypeOK
  <2>2. HolderKnown(h)'
    BY <1>1, <1>2 DEF HolderKnown, Starting, TypeOK
  <2>3. \A m \in Leases : \A g \in refs[m] : pc'[g] = "holding" /\ at'[g] = m
    BY <1>1 DEF Bookkeeping, HoldersKnown, Starting, TypeOK
  <2>4. \A g, x \in Holders : g # x /\ Starting(g)' /\ Starting(x)' => at'[g] # at'[x]
    BY <1>1 DEF Bookkeeping, HoldersKnown, Starting
  <2>5. QED
    BY <2>1, <2>2, <2>3, <2>4 DEF HoldersKnown
<1>6. DisposalsAwaited'
  <2>1. \A g \in Holders : pc'[g] = "disposal" =>
           /\ pc[g] = "disposal" /\ awaits'[g] = awaits[g]
           /\ phase'[awaits[g]] = phase[awaits[g]]
    BY <1>1, <1>2 DEF Bookkeeping, HoldersKnown, HolderKnown, TypeOK
  <2>2. QED
    BY <2>1 DEF Bookkeeping, DisposalsAwaited, Awaited
<1>7. HeldLeaseStays'
  BY <1>1, <1>2 DEF Bookkeeping, HeldLeaseStays, HoldersKnown, HolderKnown, TypeOK
<1>8. QED
  BY <1>3, <1>4, <1>5, <1>6, <1>7 DEF Bookkeeping

(* start gives the new task its lease. *)
LEMMA BindStep ==
    ASSUME TypeOK, TypeOK', Bookkeeping, NEW h \in Holders, NEW d, Starting(h), ~closed,
           leases[TaskOf[h]] = None, creating[TaskOf[h]] = None, disposing[TaskOf[h]] = None,
           UNCHANGED <<creating, disposing, closed, sweeps, evicted, deleted>>,
           phase' = [phase EXCEPT ![at[h]] = "open"],
           task' = [task EXCEPT ![at[h]] = TaskOf[h]],
           leases' = [leases EXCEPT ![TaskOf[h]] = at[h]],
           starting' = starting \ {at[h]}, refs' = [refs EXCEPT ![at[h]] = {h}],
           pc' = [pc EXCEPT ![h] = "holding"], at' = [at EXCEPT ![h] = at[h]],
           awaits' = [awaits EXCEPT ![h] = d]
    PROVE  Bookkeeping'
<1> DEFINE l == at[h]
<1>1. /\ pc'[h] = "holding" /\ at' = at
      /\ \A g \in Holders \ {h} : pc'[g] = pc[g] /\ awaits'[g] = awaits[g]
  BY DEF TypeOK
<1>2. /\ l \in Leases /\ l \in starting /\ phase[l] = "connecting" /\ TaskOf[h] \in Tasks
      /\ h \in Starters /\ task[l] = None
  BY DEF Bookkeeping, ClientsKnown, HoldersKnown, HolderKnown, Starting, TypeOK
<1>3. MapsAgree'
  BY <1>2 DEF Bookkeeping, MapsAgree, NoLeases, TypeOK
<1>4. ClientsKnown'
  BY <1>2 DEF Bookkeeping, MapsAgree, ClientsKnown, TypeOK
<1>5. HoldersKnown'
  <2>1. \A g \in Holders \ {h} : HolderKnown(g)'
    <3> SUFFICES ASSUME NEW g \in Holders \ {h} PROVE HolderKnown(g)'
      OBVIOUS
    <3>1. Starting(g)' <=> Starting(g)
      BY <1>1 DEF Starting
    <3>2. Starting(g) => at[g] # l
      BY DEF Bookkeeping, HoldersKnown
    <3>3. HolderKnown(g)
      BY DEF Bookkeeping, HoldersKnown
    <3>4. QED
      BY <1>1, <1>2, <3>1, <3>2, <3>3 DEF HolderKnown, TypeOK
  <2>2. HolderKnown(h)'
    BY <1>1, <1>2 DEF HolderKnown, Starting, TypeOK
  <2>3. \A m \in Leases : \A g \in refs'[m] : pc'[g] = "holding" /\ at'[g] = m
    <3> SUFFICES ASSUME NEW m \in Leases, NEW g \in refs'[m]
                 PROVE  pc'[g] = "holding" /\ at'[g] = m
      OBVIOUS
    <3>1. CASE m = l
      BY <1>1, <1>2, <3>1 DEF TypeOK
    <3>2. CASE m # l
      <4>1. g \in refs[m]
        BY <1>2, <3>2 DEF TypeOK
      <4>2. pc[g] = "holding" /\ at[g] = m /\ g \in Holders
        BY <4>1 DEF Bookkeeping, HoldersKnown, TypeOK
      <4>3. QED
        BY <1>1, <4>2
    <3>3. QED
      BY <3>1, <3>2
  <2>4. \A g, x \in Holders : g # x /\ Starting(g)' /\ Starting(x)' => at'[g] # at'[x]
    BY <1>1 DEF Bookkeeping, HoldersKnown, Starting
  <2>5. QED
    BY <2>1, <2>2, <2>3, <2>4 DEF HoldersKnown
<1>6. DisposalsAwaited'
  <2>1. "lost" \notin sweeps[l]
    BY <1>2 DEF Bookkeeping, ClientsKnown
  <2>2. ASSUME NEW g \in Holders, pc'[g] = "disposal" PROVE Awaited(g)'
    <3>1. /\ pc[g] = "disposal" /\ awaits'[g] = awaits[g] /\ Awaited(g)
          /\ phase'[awaits[g]] = phase[awaits[g]]
      BY <1>1, <1>2, <2>2 DEF Bookkeeping, HoldersKnown, HolderKnown, DisposalsAwaited, TypeOK
    <3>2. CASE TaskOf[g] = TaskOf[h]
      <4>1. leases'[TaskOf[g]] = l /\ refs'[l] = {h}
        BY <1>2, <3>2 DEF TypeOK
      <4>2. QED
        BY <1>2, <2>1, <3>1, <4>1 DEF Awaited
    <3>3. CASE TaskOf[g] # TaskOf[h]
      <4>1. leases'[TaskOf[g]] = leases[TaskOf[g]] /\ leases[TaskOf[g]] # l
        BY <1>2, <3>3 DEF Bookkeeping, MapsAgree, TypeOK
      <4>2. refs'[leases[TaskOf[g]]] = refs[leases[TaskOf[g]]]
        BY <1>2, <4>1 DEF TypeOK
      <4>3. QED
        BY <3>1, <4>1, <4>2 DEF Awaited
    <3>4. QED
      BY <3>2, <3>3
  <2>3. QED
    BY <2>2 DEF DisposalsAwaited
<1>7. HeldLeaseStays'
  <2>1. phase'[l] = "open" /\ h \in refs'[l]
    BY <1>2 DEF TypeOK
  <2>2. \A g \in Holders \ {h} : pc'[g] = "holding" =>
           pc[g] = "holding" /\ phase'[at[g]] = phase[at[g]] /\ refs'[at[g]] = refs[at[g]]
    BY <1>1, <1>2, SMTT(30) DEF Bookkeeping, HoldersKnown, HolderKnown, TypeOK
  <2>3. QED
    BY <1>1, <2>1, <2>2 DEF Bookkeeping, HeldLeaseStays
<1>8. QED
  BY <1>3, <1>4, <1>5, <1>6, <1>7 DEF Bookkeeping

(* A holder gets its reference. *)
LEMMA AttachStep ==
    ASSUME TypeOK, TypeOK', Bookkeeping, NEW h \in Holders, pc[h] = "attach",
           UNCHANGED <<leases, creating, disposing, starting, closed, phase, task, sweeps,
                       awaits, evicted, deleted>>,
           phase[at[h]] = "open", refs' = [refs EXCEPT ![at[h]] = @ \cup {h}],
           pc' = [pc EXCEPT ![h] = "holding"], at' = [at EXCEPT ![h] = at[h]]
    PROVE  Bookkeeping'
<1> DEFINE l == at[h]
<1>a. l \in Leases
  BY DEF Bookkeeping, HoldersKnown, HolderKnown
<1>1. /\ pc'[h] = "holding" /\ at' = at /\ l \in Leases
      /\ \A g \in Holders \ {h} : pc'[g] = pc[g]
  BY <1>a DEF TypeOK
<1>2. \A m \in Leases : refs'[m] = IF m = l THEN refs[m] \cup {h} ELSE refs[m]
  <2>1. refs' = [refs EXCEPT ![l] = refs[l] \cup {h}] /\ refs \in [Leases -> SUBSET Holders]
    BY <1>1 DEF TypeOK
  <2> HIDE DEF l
  <2>2. QED
    BY <1>1, <2>1
<1>3. MapsAgree' /\ ClientsKnown'
  BY DEF Bookkeeping, MapsAgree, ClientsKnown, NoLeases
<1>4. HoldersKnown'
  <2>1. \A g \in Holders : HolderKnown(g)'
    BY <1>1 DEF Bookkeeping, HoldersKnown, HolderKnown, Starting
  <2>2. \A m \in Leases : \A g \in refs'[m] : pc'[g] = "holding" /\ at'[g] = m
    BY <1>1, <1>2 DEF Bookkeeping, HoldersKnown, TypeOK
  <2>3. \A g, x \in Holders : g # x /\ Starting(g)' /\ Starting(x)' => at'[g] # at'[x]
    BY <1>1 DEF Bookkeeping, HoldersKnown, Starting
  <2>4. QED
    BY <2>1, <2>2, <2>3 DEF HoldersKnown
<1>5. DisposalsAwaited'
  <2>1. ASSUME NEW g \in Holders, pc'[g] = "disposal" PROVE Awaited(g)'
    <3>1. pc[g] = "disposal" /\ Awaited(g)
      BY <1>1, <2>1 DEF Bookkeeping, DisposalsAwaited
    <3>2. leases[TaskOf[g]] \in Leases \cup {None}
      BY DEF TypeOK
    <3>3. QED
      BY <1>2, <3>1, <3>2 DEF Awaited
  <2>2. QED
    BY <2>1 DEF DisposalsAwaited
<1>6. HeldLeaseStays'
  <2>1. \A g \in Holders \ {h} : pc[g] = "holding" => at[g] \in Leases
    BY DEF Bookkeeping, HoldersKnown, HolderKnown
  <2>2. QED
    BY <1>1, <1>2, <2>1 DEF Bookkeeping, HeldLeaseStays
<1>7. QED
  BY <1>3, <1>4, <1>5, <1>6 DEF Bookkeeping

(* #create is over: the client is connected, or failed. *)
LEMMA ConnectedStep ==
    ASSUME TypeOK, TypeOK', Bookkeeping, NEW l \in Leases, Connected(l)
    PROVE  Bookkeeping'
<1>1. /\ UNCHANGED <<disposing, starting, closed, task, refs, sweeps, pc, at, awaits,
                     evicted, deleted>>
      /\ phase[l] = "connecting" /\ l \notin starting /\ NoMicrotasks
      /\ creating' = [creating EXCEPT ![task[l]] = None]
  BY DEF Connected, holderVars
<1>2. PICK p \in {"open", "gone"} :
         /\ phase' = [phase EXCEPT ![l] = p]
         /\ p = "open" => ~closed /\ leases' = [leases EXCEPT ![task[l]] = l]
         /\ p = "gone" => leases' = leases
  BY DEF Connected
<1>3. /\ task[l] \in Tasks /\ creating[task[l]] = l /\ leases[task[l]] = None
      /\ disposing[task[l]] = None /\ l \notin evicted \cup deleted
  BY <1>1 DEF Bookkeeping, ClientsKnown, MapsAgree, TypeOK
<1>4. MapsAgree'
  BY <1>1, <1>2, <1>3 DEF Bookkeeping, MapsAgree, NoLeases, TypeOK
<1>5. ClientsKnown'
  BY <1>1, <1>2, <1>3 DEF Bookkeeping, MapsAgree, ClientsKnown, TypeOK
<1>6. HoldersKnown'
  <2>1. ASSUME NEW g \in Holders PROVE HolderKnown(g)'
    <3>1. HolderKnown(g) /\ (Starting(g)' <=> Starting(g))
      BY <1>1 DEF Bookkeeping, HoldersKnown, Starting
    <3>2. QED
      BY <1>1, <1>2, <3>1 DEF HolderKnown, TypeOK
  <2>2. QED
    BY <1>1, <2>1 DEF Bookkeeping, HoldersKnown, Starting
<1>7. DisposalsAwaited'
  <2>1. ASSUME NEW g \in Holders, pc[g] = "disposal" PROVE Awaited(g)'
    <3>1. /\ awaits[g] \in Leases /\ phase[awaits[g]] = "closing" /\ Awaited(g)
      BY <1>1, <2>1 DEF Bookkeeping, HoldersKnown, HolderKnown, DisposalsAwaited,
                        NoMicrotasks, Ready
    <3>2. phase'[awaits[g]] = "closing"
      BY <1>1, <1>2, <3>1 DEF TypeOK
    <3>3. QED
      BY <1>1, <3>1, <3>2 DEF Awaited
  <2>2. QED
    BY <1>1, <2>1 DEF DisposalsAwaited
<1>8. HeldLeaseStays'
  BY <1>1, <1>2 DEF Bookkeeping, HeldLeaseStays, HoldersKnown, HolderKnown, TypeOK
<1>9. QED
  BY <1>4, <1>5, <1>6, <1>7, <1>8 DEF Bookkeeping

(* A client is lost. *)
LEMMA LoseStep ==
    ASSUME TypeOK, TypeOK', Bookkeeping, NEW l \in Leases, Lose(l)
    PROVE  Bookkeeping'
<1>1. /\ UNCHANGED <<leases, creating, disposing, starting, closed, phase, task, refs, pc, at,
                     awaits, deleted>>
      /\ phase[l] = "open" /\ NoMicrotasks
      /\ evicted' = evicted \cup {l} /\ sweeps' = [sweeps EXCEPT ![l] = @ \cup {"lost"}]
  BY DEF Lose, managerVars, holderVars
<1>2. MapsAgree'
  BY <1>1 DEF Bookkeeping, MapsAgree, NoLeases
<1>3. ClientsKnown'
  BY <1>1 DEF Bookkeeping, ClientsKnown, TypeOK
<1>4. HoldersKnown'
  BY <1>1 DEF Bookkeeping, HoldersKnown, HolderKnown, Starting
<1>5. DisposalsAwaited'
  <2>1. ASSUME NEW g \in Holders, pc[g] = "disposal" PROVE Awaited(g)'
    <3>1. phase[awaits[g]] = "closing" /\ Awaited(g)
      BY <1>1, <2>1 DEF Bookkeeping, HoldersKnown, HolderKnown, DisposalsAwaited,
                        NoMicrotasks, Ready
    <3>2. QED
      BY <1>1, <3>1 DEF Awaited
  <2>2. QED
    BY <1>1, <2>1 DEF DisposalsAwaited
<1>6. HeldLeaseStays'
  BY <1>1 DEF Bookkeeping, HeldLeaseStays
<1>7. QED
  BY <1>2, <1>3, <1>4, <1>5, <1>6 DEF Bookkeeping

(* A client has closed. *)
LEMMA ClosedStep ==
    ASSUME TypeOK, TypeOK', Bookkeeping, NEW l \in Leases, Closed(l)
    PROVE  Bookkeeping'
<1>1. /\ UNCHANGED <<leases, creating, closed, task, refs, at, awaits, evicted, deleted>>
      /\ phase[l] = "closing" /\ NoMicrotasks
      /\ phase' = [phase EXCEPT ![l] = "gone"]
      /\ disposing' = [t \in Tasks |-> IF disposing[t] = l THEN None ELSE disposing[t]]
      /\ starting' = starting \ {l}
      /\ pc' = [h \in Holders |-> IF pc[h] = "abandoning" /\ at[h] = l
                                  THEN "refused" ELSE pc[h]]
      /\ sweeps' = [sweeps EXCEPT ![l] = {}]
  BY DEF Closed, Settled
<1>2. MapsAgree'
  BY <1>1 DEF Bookkeeping, MapsAgree, NoLeases, TypeOK
<1>3. ClientsKnown'
  BY <1>1 DEF Bookkeeping, ClientsKnown, TypeOK
<1>4. HoldersKnown'
  <2>1. ASSUME NEW g \in Holders PROVE HolderKnown(g)'
    <3>1. HolderKnown(g) /\ (Starting(g)' <=> Starting(g))
      BY <1>1 DEF Bookkeeping, HoldersKnown, Starting
    <3>2. pc'[g] = pc[g] \/ pc'[g] = "refused"
      BY <1>1
    <3>3. pc'[g] = "abandoning" => at[g] # l
      BY <1>1
    <3>4. starting \subseteq Leases
      BY DEF TypeOK
    <3>5. QED
      BY <1>1, <3>1, <3>2, <3>3, <3>4 DEF HolderKnown, TypeOK
  <2>2. \A g, x \in Holders : g # x /\ Starting(g)' /\ Starting(x)' => at'[g] # at'[x]
    BY <1>1 DEF Bookkeeping, HoldersKnown, Starting
  <2>3. \A m \in Leases : \A g \in refs'[m] : pc'[g] = "holding" /\ at'[g] = m
    BY <1>1 DEF Bookkeeping, HoldersKnown, TypeOK
  <2>4. QED
    BY <2>1, <2>2, <2>3 DEF HoldersKnown
<1>5. DisposalsAwaited'
  <2>1. ASSUME NEW g \in Holders, pc'[g] = "disposal" PROVE Awaited(g)'
    <3>1. pc[g] = "disposal"
      BY <1>1, <2>1
    <3>2. /\ awaits[g] \in Leases /\ phase[awaits[g]] = "closing" /\ Awaited(g)
      BY <1>1, <3>1 DEF Bookkeeping, HoldersKnown, HolderKnown, DisposalsAwaited,
                        NoMicrotasks, Ready
    <3>3. TaskOf[g] \in Tasks /\ (closed => disposing[TaskOf[g]] = None /\ leases[TaskOf[g]] = None)
      BY DEF Bookkeeping, MapsAgree, NoLeases
    <3>4. CASE awaits[g] = l
      <4>1. leases[TaskOf[g]] = None /\ disposing[TaskOf[g]] \in {None, l}
        BY <3>2, <3>3, <3>4 DEF Bookkeeping, MapsAgree, Awaited
      <4>2. disposing'[TaskOf[g]] = None
        BY <1>1, <3>3, <4>1
      <4>3. phase'[awaits[g]] = "gone"
        BY <1>1, <3>4 DEF TypeOK
      <4>4. QED
        BY <1>1, <4>1, <4>2, <4>3 DEF Awaited
    <3>5. CASE awaits[g] # l
      <4>1. phase'[awaits[g]] = "closing"
        BY <1>1, <3>2, <3>5 DEF TypeOK
      <4>2. ~closed => disposing'[TaskOf[g]] = awaits[g]
        BY <1>1, <3>2, <3>3, <3>5 DEF Awaited
      <4>3. QED
        BY <1>1, <4>1, <4>2 DEF Awaited
    <3>6. QED
      BY <3>4, <3>5
  <2>2. QED
    BY <2>1 DEF DisposalsAwaited
<1>6. HeldLeaseStays'
  <2>1. ASSUME NEW g \in Holders, pc'[g] = "holding"
        PROVE  pc[g] = "holding" /\ at[g] \in Leases
    BY <1>1, <2>1 DEF Bookkeeping, HoldersKnown, HolderKnown
  <2>2. QED
    BY <1>1, <2>1 DEF Bookkeeping, HeldLeaseStays, TypeOK
<1>7. QED
  BY <1>2, <1>3, <1>4, <1>5, <1>6 DEF Bookkeeping

(* The task of a lease is deleted. *)
LEMMA CloseThreadStep ==
    ASSUME TypeOK, TypeOK', Bookkeeping, NEW t \in Tasks, CloseThread(t)
    PROVE  Bookkeeping'
<1> DEFINE l == leases[t]
<1>1. /\ UNCHANGED <<creating, disposing, starting, closed, task, refs, sweeps, pc, at, awaits,
                     evicted>>
      /\ l # None /\ leases' = [leases EXCEPT ![t] = None]
      /\ phase' = [phase EXCEPT ![l] = "closing"] /\ deleted' = deleted \cup {l}
  BY DEF CloseThread, CloseLease, holderVars
<1>2. l \in Leases /\ phase[l] = "open" /\ task[l] = t /\ leases[t] = l
  BY <1>1 DEF Bookkeeping, MapsAgree, TypeOK
<1> HIDE DEF l
<1>3. MapsAgree'
  BY <1>1, <1>2 DEF Bookkeeping, MapsAgree, NoLeases, TypeOK
<1>4. ClientsKnown'
  BY <1>1, <1>2 DEF Bookkeeping, MapsAgree, ClientsKnown, TypeOK
<1>5. HoldersKnown'
  <2>1. ASSUME NEW g \in Holders PROVE HolderKnown(g)'
    <3>1. HolderKnown(g) /\ (Starting(g)' <=> Starting(g))
      BY <1>1 DEF Bookkeeping, HoldersKnown, Starting
    <3>2. QED
      BY <1>1, <1>2, <3>1 DEF HolderKnown, TypeOK
  <2>2. QED
    BY <1>1, <2>1 DEF Bookkeeping, HoldersKnown, Starting
<1>6. DisposalsAwaited'
  <2>1. ASSUME NEW g \in Holders, pc[g] = "disposal" PROVE Awaited(g)'
    <3>1. /\ awaits[g] \in Leases /\ awaits[g] # l /\ Awaited(g) /\ TaskOf[g] \in Tasks
      BY <1>1, <1>2, <2>1 DEF Bookkeeping, HoldersKnown, HolderKnown, DisposalsAwaited
    <3>2. phase'[awaits[g]] = phase[awaits[g]]
      BY <1>1, <1>2, <3>1 DEF TypeOK
    <3>3. leases'[TaskOf[g]] \in {None, leases[TaskOf[g]]}
      BY <1>1, <3>1 DEF TypeOK
    <3>4. QED
      BY <1>1, <3>1, <3>2, <3>3 DEF Awaited
  <2>2. QED
    BY <1>1, <2>1 DEF DisposalsAwaited
<1>7. HeldLeaseStays'
  <2>1. \A g \in Holders : pc[g] = "holding" => at[g] \in Leases
    BY DEF Bookkeeping, HoldersKnown, HolderKnown
  <2>2. \A m \in Leases : phase'[m] = phase[m] \/ m \in deleted'
    BY <1>1, <1>2 DEF TypeOK
  <2>3. QED
    BY <1>1, <2>1, <2>2 DEF Bookkeeping, HeldLeaseStays
<1>8. QED
  BY <1>3, <1>4, <1>5, <1>6, <1>7 DEF Bookkeeping

(* The manager is closed. *)
LEMMA CloseManagerStep ==
    ASSUME TypeOK, TypeOK', Bookkeeping, CloseManager
    PROVE  Bookkeeping'
<1>1. /\ UNCHANGED <<creating, starting, task, refs, sweeps, pc, at, awaits, deleted>>
      /\ closed' = TRUE /\ leases' = NoLeases /\ disposing' = NoLeases
      /\ evicted' = evicted \cup {l \in Leases : phase[l] = "open"}
      /\ phase' = [l \in Leases |-> IF phase[l] = "open" THEN "closing" ELSE phase[l]]
  BY DEF CloseManager, holderVars
<1>2. MapsAgree'
  BY <1>1 DEF Bookkeeping, MapsAgree, NoLeases, TypeOK
<1>3. ClientsKnown'
  BY <1>1 DEF Bookkeeping, ClientsKnown, TypeOK
<1>4. HoldersKnown'
  <2>1. ASSUME NEW g \in Holders PROVE HolderKnown(g)'
    <3>1. HolderKnown(g) /\ (Starting(g)' <=> Starting(g)) /\ starting \subseteq Leases
      BY <1>1 DEF Bookkeeping, HoldersKnown, Starting, TypeOK
    <3>2. QED
      BY <1>1, <3>1 DEF HolderKnown, TypeOK
  <2>2. QED
    BY <1>1, <2>1 DEF Bookkeeping, HoldersKnown, Starting
<1>5. DisposalsAwaited'
  BY <1>1 DEF DisposalsAwaited, Awaited, NoLeases
<1>6. HeldLeaseStays'
  BY <1>1 DEF Bookkeeping, HeldLeaseStays, HoldersKnown, HolderKnown
<1>7. QED
  BY <1>2, <1>3, <1>4, <1>5, <1>6 DEF Bookkeeping

(* Every step keeps the maps, the clients and the holders in agreement. *)
LEMMA BookkeepingStep ==
    ASSUME TypeOK, TypeOK', Bookkeeping, Next
    PROVE  Bookkeeping'
<1>1. ASSUME NEW h \in Holders, pc[h] # "holding",
             \/ pc' = [pc EXCEPT ![h] = "refused"] \/ UNCHANGED pc,
             \A g \in Holders \ {h} : at'[g] = at[g] /\ awaits'[g] = awaits[g],
             pc'[h] = "refused" \/ UNCHANGED <<at, awaits>>,
             UNCHANGED <<leases, creating, disposing, starting, closed, phase, task, refs,
                         sweeps, evicted, deleted>>
      PROVE  Bookkeeping'
  <2>1. \A x \in Holders : \/ pc'[x] = pc[x] /\ at'[x] = at[x] /\ awaits'[x] = awaits[x]
                           \/ pc'[x] \in {"idle", "refused"}
    BY <1>1 DEF TypeOK
  <2>2. \A x \in Holders : pc[x] = "holding" => pc'[x] = "holding"
    BY <1>1 DEF TypeOK
  <2>3. \A m \in Leases, x \in Holders : x \in refs'[m] <=> x \in refs[m] /\ pc'[x] = "holding"
    BY <1>1, <2>2 DEF Bookkeeping, HoldersKnown
  <2>4. QED
    BY <1>1, <2>1, <2>2, <2>3, HoldersLeave
<1>2. ASSUME NEW h \in Holders, NEW d, GetOrCreate(h), pc[h] \in {"idle", "disposal"},
             h \notin Starters, ~closed, disposing[TaskOf[h]] = None,
             awaits' = [awaits EXCEPT ![h] = d],
             UNCHANGED <<leases, disposing, starting, closed, refs, sweeps, evicted, deleted>>
      PROVE  Bookkeeping'
  <2> DEFINE t == TaskOf[h]
  <2>1. leases[t] \in Leases \cup {None} /\ creating[t] \in Leases \cup {None} /\ t \in Tasks
    BY DEF TypeOK
  <2>2. CASE /\ leases[t] # None /\ Goto(h, "attach", leases[t])
             /\ UNCHANGED <<creating, phase, task>>
    <3>1. leases[t] \in Leases \ starting /\ phase[leases[t]] # "free"
      BY <2>1, <2>2 DEF Bookkeeping, MapsAgree, ClientsKnown
    <3>2. QED
      BY <1>2, <2>2, <3>1, HolderWaits DEF Goto
  <2>3. CASE /\ creating[t] # None /\ Goto(h, "attach", creating[t])
             /\ UNCHANGED <<creating, phase, task>>
    <3>1. creating[t] \in Leases \ starting /\ phase[creating[t]] # "free"
      BY <2>1, <2>3 DEF Bookkeeping, MapsAgree
    <3>2. QED
      BY <1>2, <2>3, <3>1, HolderWaits DEF Goto
  <2>4. CASE Goto(h, "refused", None) /\ UNCHANGED <<creating, phase, task>>
    BY <1>1, <1>2, <2>4, ZenonT(40) DEF Goto, TypeOK
  <2>5. CASE /\ leases[t] = None /\ creating[t] = None
             /\ \E l \in Leases : /\ Fresh(l)
                                  /\ phase' = [phase EXCEPT ![l] = "connecting"]
                                  /\ task' = [task EXCEPT ![l] = t]
                                  /\ creating' = [creating EXCEPT ![t] = l]
                                  /\ Goto(h, "attach", l)
    BY <1>2, <2>5, CreateStep DEF Goto, Fresh
  <2>6. QED
    BY <1>2, <2>2, <2>3, <2>4, <2>5 DEF GetOrCreate
<1>3. ASSUME NEW h \in Holders, Acquire(h) PROVE Bookkeeping'
  <2>1. /\ pc[h] = "idle" /\ h \notin Starters
        /\ UNCHANGED <<leases, disposing, starting, closed, refs, sweeps, evicted, deleted>>
    BY <1>3 DEF Acquire, acquireFrame, historyVars
  <2>2. CASE closed /\ Goto(h, "refused", None) /\ UNCHANGED <<creating, phase, task, awaits>>
    BY <1>1, <2>1, <2>2, ZenonT(40) DEF Goto, TypeOK
  <2>3. CASE /\ MustWait(TaskOf[h]) /\ Goto(h, "disposal", None)
             /\ awaits' = [awaits EXCEPT ![h] = disposing[TaskOf[h]]]
             /\ UNCHANGED <<creating, phase, task>>
    BY <2>1, <2>3, HolderWaits DEF Goto, MustWait
  <2>4. CASE ~closed /\ ~MustWait(TaskOf[h]) /\ GetOrCreate(h) /\ UNCHANGED awaits
    <3>1. awaits' = [awaits EXCEPT ![h] = awaits[h]]
      BY <2>4 DEF TypeOK
    <3>2. QED
      BY <1>2, <2>1, <2>4, <3>1 DEF MustWait
  <2>5. QED
    BY <1>3, <2>2, <2>3, <2>4 DEF Acquire
<1>4. ASSUME NEW h \in Holders, AfterDisposal(h) PROVE Bookkeeping'
  <2>1. /\ pc[h] = "disposal" /\ h \notin Starters /\ phase[awaits[h]] = "gone"
        /\ awaits' = [awaits EXCEPT ![h] = None]
        /\ UNCHANGED <<leases, disposing, starting, closed, refs, sweeps, evicted, deleted>>
    BY <1>4 DEF AfterDisposal, acquireFrame, historyVars, Ready
  <2>2. disposing[TaskOf[h]] = None
    BY <2>1 DEF Bookkeeping, DisposalsAwaited, Awaited
  <2>3. CASE Goto(h, "refused", None) /\ UNCHANGED <<creating, phase, task>>
    BY <1>1, <2>1, <2>3, ZenonT(40) DEF Goto, TypeOK
  <2>4. CASE ~closed /\ GetOrCreate(h)
    BY <1>2, <2>1, <2>2, <2>4
  <2>5. QED
    BY <1>4, <2>3, <2>4 DEF AfterDisposal
<1>5. ASSUME NEW h \in Holders, Start(h) PROVE Bookkeeping'
  <2>1. /\ pc[h] = "idle" /\ h \in Starters
        /\ UNCHANGED <<leases, creating, disposing, closed, task, refs, sweeps, awaits,
                       evicted, deleted>>
    BY <1>5 DEF Start, historyVars
  <2>2. CASE Goto(h, "refused", None) /\ UNCHANGED <<starting, phase>>
    BY <1>1, <2>1, <2>2 DEF Goto, TypeOK
  <2>3. CASE \E l \in Leases : /\ Fresh(l)
                               /\ phase' = [phase EXCEPT ![l] = "connecting"]
                               /\ starting' = starting \cup {l}
                               /\ Goto(h, "starting", l)
    BY <2>1, <2>3, StartStep DEF Goto, Fresh
  <2>4. QED
    BY <1>5, <2>2, <2>3 DEF Start
<1>6. ASSUME NEW h \in Holders, NEW d, AbandonStart(h), Starting(h),
             awaits' = [awaits EXCEPT ![h] = d],
             UNCHANGED <<creating, disposing, closed, sweeps, evicted, deleted>>
      PROVE  Bookkeeping'
  BY <1>6, AbandonStep DEF AbandonStart, CloseLease, Goto
<1>7. ASSUME NEW h \in Holders, NEW d, BindStarted(h), Starting(h),
             closed \/ disposing[TaskOf[h]] = None,
             awaits' = [awaits EXCEPT ![h] = d],
             UNCHANGED <<creating, disposing, closed, sweeps, evicted, deleted>>
      PROVE  Bookkeeping'
  <2>1. CASE AbandonStart(h)
    BY <1>6, <1>7, <2>1
  <2>2. CASE ~AbandonStart(h)
    BY <1>7, <2>2, BindStep DEF BindStarted, Goto
  <2>3. QED
    BY <2>1, <2>2
<1>8. ASSUME NEW h \in Holders, Initialized(h) PROVE Bookkeeping'
  <2>1. /\ pc[h] = "starting" /\ Starting(h) /\ h \in Starters
        /\ UNCHANGED <<creating, disposing, closed, sweeps, evicted, deleted>>
    BY <1>8 DEF Initialized, startFrame, Starting, Bookkeeping, HoldersKnown, HolderKnown
  <2>2. CASE AbandonStart(h) /\ UNCHANGED awaits
    <3>1. awaits' = [awaits EXCEPT ![h] = awaits[h]]
      BY <2>2 DEF TypeOK
    <3>2. QED
      BY <1>6, <2>1, <2>2, <3>1
  <2>3. CASE /\ disposing[TaskOf[h]] # None /\ Goto(h, "disposal", at[h])
             /\ awaits' = [awaits EXCEPT ![h] = disposing[TaskOf[h]]]
             /\ UNCHANGED <<phase, asks, leases, starting, task, refs, failures>>
    BY <2>1, <2>3, HolderWaits DEF Goto
  <2>4. CASE /\ closed \/ disposing[TaskOf[h]] = None
             /\ BindStarted(h) /\ UNCHANGED awaits
    <3>1. awaits' = [awaits EXCEPT ![h] = awaits[h]]
      BY <2>4 DEF TypeOK
    <3>2. QED
      BY <1>7, <2>1, <2>4, <3>1
  <2>5. QED
    BY <1>8, <2>2, <2>3, <2>4 DEF Initialized
<1>9. ASSUME NEW h \in Holders, StartAfterDisposal(h) PROVE Bookkeeping'
  <2>1. /\ pc[h] = "disposal" /\ Starting(h) /\ phase[awaits[h]] = "gone"
        /\ awaits' = [awaits EXCEPT ![h] = None]
        /\ UNCHANGED <<creating, disposing, closed, sweeps, evicted, deleted>>
    BY <1>9 DEF StartAfterDisposal, startFrame, Starting, Ready
  <2>2. disposing[TaskOf[h]] = None
    BY <2>1 DEF Bookkeeping, DisposalsAwaited, Awaited
  <2>3. AbandonStart(h) \/ BindStarted(h)
    BY <1>9 DEF StartAfterDisposal
  <2>4. QED
    BY <1>6, <1>7, <2>1, <2>2, <2>3
<1>10. ASSUME NEW l \in Leases,
              \/ phase[l] = "open" /\ Dispose(l)
              \/ UNCHANGED <<leases, disposing, phase, asks>>
       PROVE  \/ UNCHANGED <<leases, disposing, phase>>
              \/ /\ phase[l] = "open" /\ Dispose(l)
                 /\ leases' = [leases EXCEPT ![task[l]] = None]
                 /\ disposing' = [disposing EXCEPT ![task[l]] = l]
                 /\ phase' = [phase EXCEPT ![l] = "closing"]
  BY <1>10 DEF Dispose, CloseLease
<1>11. ASSUME NEW h \in Holders, Attach(h) PROVE Bookkeeping'
  <2>1. /\ pc[h] = "attach"
        /\ UNCHANGED <<creating, starting, closed, task, sweeps, awaits, evicted, deleted>>
    BY <1>11 DEF Attach, historyVars
  <2>2. CASE /\ Goto(h, "refused", None) /\ UNCHANGED <<refs, leases, disposing, phase, asks>>
    BY <1>1, <2>1, <2>2 DEF Goto, TypeOK
  <2>3. CASE /\ phase[at[h]] = "open"
             /\ refs' = [refs EXCEPT ![at[h]] = @ \cup {h}]
             /\ Goto(h, "holding", at[h])
             /\ UNCHANGED <<leases, disposing, phase, asks>>
    BY <2>1, <2>3, AttachStep DEF Goto
  <2>4. CASE /\ phase[at[h]] = "open" /\ DisposeIfIdle(at[h], refs[at[h]])
             /\ Goto(h, "refused", None) /\ UNCHANGED refs
    <3>1. at[h] \in Leases
      BY <2>1 DEF Bookkeeping, HoldersKnown, HolderKnown
    <3>2. \/ UNCHANGED <<leases, disposing, phase, asks>>
          \/ Dispose(at[h]) /\ refs'[at[h]] = {}
      BY <2>4 DEF DisposeIfIdle, Disposable
    <3>3. \/ UNCHANGED <<leases, disposing, phase>>
          \/ \E l \in Leases :
                /\ phase[l] = "open" /\ (refs'[l] = {} \/ "lost" \in sweeps[l])
                /\ leases' = [leases EXCEPT ![task[l]] = None]
                /\ disposing' = [disposing EXCEPT ![task[l]] = l]
                /\ phase' = [phase EXCEPT ![l] = "closing"]
      BY <1>10, <2>4, <3>1, <3>2
    <3>4. \A x \in Holders : \/ pc'[x] = pc[x] /\ at'[x] = at[x] /\ awaits'[x] = awaits[x]
                             \/ pc'[x] \in {"idle", "refused"}
      BY <2>1, <2>4 DEF Goto, TypeOK
    <3>5. \A x \in Holders : pc[x] = "holding" => pc'[x] = "holding"
      BY <2>1, <2>4 DEF Goto, TypeOK
    <3>6. \A m \in Leases, x \in Holders : x \in refs'[m] <=> x \in refs[m] /\ pc'[x] = "holding"
      BY <2>4, <3>5 DEF Bookkeeping, HoldersKnown
    <3>7. QED
      BY <2>1, <3>3, <3>4, <3>5, <3>6, HoldersLeave
  <2>5. QED
    BY <1>11, <2>2, <2>3, <2>4 DEF Attach
<1>12. ASSUME NEW h \in Holders, Release(h) PROVE Bookkeeping'
  <2> DEFINE l == at[h]
  <2>1. /\ pc[h] = "holding" /\ (h \in Starters => NoMicrotasks)
        /\ UNCHANGED <<creating, starting, closed, task, sweeps, awaits, evicted, deleted>>
        /\ refs' = [refs EXCEPT ![l] = @ \ {h}] /\ DisposeIfIdle(l, refs'[l])
    BY <1>12 DEF Release, historyVars
  <2>2. /\ pc'[h] \in {"idle", "refused"}
        /\ \A x \in Holders \ {h} : pc'[x] = pc[x] /\ at'[x] = at[x]
    BY <1>12 DEF Release, Goto, TypeOK
  <2>3. l \in Leases
    BY <1>12 DEF Release, Bookkeeping, HoldersKnown, HolderKnown
  <2>4. \/ UNCHANGED <<leases, disposing, phase, asks>>
        \/ phase[l] = "open" /\ Dispose(l) /\ refs'[l] = {}
    BY <2>1 DEF DisposeIfIdle, Disposable
  <2>5. \/ UNCHANGED <<leases, disposing, phase>>
        \/ \E m \in Leases :
              /\ phase[m] = "open" /\ (refs'[m] = {} \/ "lost" \in sweeps[m])
              /\ leases' = [leases EXCEPT ![task[m]] = None]
              /\ disposing' = [disposing EXCEPT ![task[m]] = m]
              /\ phase' = [phase EXCEPT ![m] = "closing"]
    BY <1>10, <2>3, <2>4
  <2>6. \A m \in Leases : \A x \in refs[m] : pc[x] = "holding" /\ at[x] = m
    BY DEF Bookkeeping, HoldersKnown
  <2>7. \A m \in Leases, x \in Holders : x \in refs'[m] <=> x \in refs[m] /\ pc'[x] = "holding"
    <3> SUFFICES ASSUME NEW m \in Leases, NEW x \in Holders
                 PROVE  x \in refs'[m] <=> x \in refs[m] /\ pc'[x] = "holding"
      OBVIOUS
    <3>1. x \in refs'[m] <=> x \in refs[m] /\ ~(x = h /\ m = l)
      BY <2>1, <2>3 DEF TypeOK
    <3>2. QED
      BY <2>2, <2>6, <3>1
  <2>8. QED
    BY <2>1, <2>2, <2>5, <2>7, HoldersLeave
<1>13. ASSUME NEW l \in Leases, NEW why \in {"idle", "lost"}, Sweep(l, why) PROVE Bookkeeping'
  <2>1. /\ why \in sweeps[l] /\ sweeps' = [sweeps EXCEPT ![l] = @ \ {why}]
        /\ UNCHANGED <<creating, starting, closed, task, refs, pc, at, awaits, evicted, deleted>>
    BY <1>13 DEF Sweep, holderVars, historyVars
  <2>2. \/ UNCHANGED <<leases, disposing, phase, asks>>
        \/ phase[l] = "open" /\ Dispose(l) /\ (refs'[l] = {} \/ "lost" \in sweeps[l])
    BY <1>13, <2>1 DEF Sweep, DisposeIfIdle, Disposable
  <2>3. \/ UNCHANGED <<leases, disposing, phase>>
        \/ \E m \in Leases :
              /\ phase[m] = "open" /\ (refs'[m] = {} \/ "lost" \in sweeps[m])
              /\ leases' = [leases EXCEPT ![task[m]] = None]
              /\ disposing' = [disposing EXCEPT ![task[m]] = m]
              /\ phase' = [phase EXCEPT ![m] = "closing"]
    BY <1>10, <2>2
  <2>4. \A m \in Leases : "lost" \in sweeps'[m] => "lost" \in sweeps[m]
    BY <2>1 DEF TypeOK
  <2>5. \A m \in Leases, x \in Holders : x \in refs'[m] <=> x \in refs[m] /\ pc'[x] = "holding"
    BY <2>1 DEF Bookkeeping, HoldersKnown
  <2>6. QED
    BY <2>1, <2>3, <2>4, <2>5, HoldersLeave
<1>14. ASSUME NEW h \in Holders, CloseOwner(h) PROVE Bookkeeping'
  <2>1. /\ UNCHANGED <<leases, creating, disposing, starting, closed, phase, task, refs, sweeps,
                       awaits, evicted, deleted>>
        /\ \/ pc[h] = "idle" /\ pc' = [pc EXCEPT ![h] = "refused"] /\ at' = [at EXCEPT ![h] = None]
           \/ UNCHANGED <<pc, at>>
    BY <1>14 DEF CloseOwner, Goto, managerVars, leaseVars, historyVars
  <2>2. \A x \in Holders : \/ pc'[x] = pc[x] /\ at'[x] = at[x] /\ awaits'[x] = awaits[x]
                           \/ pc'[x] \in {"idle", "refused"}
    BY <2>1 DEF TypeOK
  <2>3. \A x \in Holders : pc[x] = "holding" => pc'[x] = "holding"
    BY <2>1 DEF TypeOK
  <2>4. \A m \in Leases, x \in Holders : x \in refs'[m] <=> x \in refs[m] /\ pc'[x] = "holding"
    BY <2>1, <2>3 DEF Bookkeeping, HoldersKnown
  <2>5. QED
    BY <2>1, <2>2, <2>3, <2>4, HoldersLeave
<1>15. ASSUME noteFrame, \A m \in Leases : "lost" \in sweeps'[m] => "lost" \in sweeps[m]
       PROVE  Bookkeeping'
  <2>1. UNCHANGED <<leases, creating, disposing, starting, closed, phase, task, refs, pc, at,
                    awaits, evicted, deleted>>
    BY <1>15 DEF noteFrame, managerVars, holderVars, historyVars
  <2>2. \A m \in Leases, x \in Holders : x \in refs'[m] <=> x \in refs[m] /\ pc'[x] = "holding"
    BY <2>1 DEF Bookkeeping, HoldersKnown
  <2>3. QED
    BY <1>15, <2>1, <2>2, HoldersLeave
<1>16. CASE \/ \E h \in Holders : NoteTurnStarted(h)
            \/ \E h \in Holders, s \in {"idle", "active", "systemError"} : Adopt(h, s)
            \/ \E l \in Leases : Ask(l)
  BY <1>15, <1>16 DEF NoteTurnStarted, Adopt, Ask
<1>17. CASE \/ \E l \in Leases : Answer(l)
            \/ \E l \in Leases, n \in Notifications : Notify(l, n)
  <2>1. PICK l \in Leases : sweeps' = [sweeps EXCEPT ![l] = @ \cup {"idle"}] /\ noteFrame
    BY <1>17 DEF Answer, Notify
  <2>2. \A m \in Leases : "lost" \in sweeps'[m] => "lost" \in sweeps[m]
    BY <2>1 DEF TypeOK
  <2>3. QED
    BY <1>15, <2>1, <2>2
<1>18. QED
  BY NextCases, <1>3, <1>4, <1>5, <1>8, <1>9, <1>11, <1>12, <1>13, <1>14, <1>16, <1>17,
     ConnectedStep, LoseStep, ClosedStep, CloseThreadStep, CloseManagerStep

-----------------------------------------------------------------------------
(***************************************************************************)
(* Clients that exist: one per task, and not more than maximumLeases       *)
(***************************************************************************)
(* Clients come into being one at a time, in an open manager that has room. *)
ClientsAdded ==
    /\ evicted \subseteq evicted' /\ deleted \subseteq deleted'
    /\ closed' => task' = task
    /\ \/ \A m \in Leases : Live(m)' => Live(m)
       \/ /\ ~closed /\ ~closed' /\ HasCapacity
          /\ \E l \in Leases : \A m \in Leases : Live(m)' => Live(m) \/ m = l

LEMMA LiveMoves ==
    ASSUME TypeOK, TypeOK', Bookkeeping, Next
    PROVE  ClientsAdded
<1>1. ASSUME UNCHANGED <<closed, evicted, deleted>>, closed => UNCHANGED task,
             NEW l \in Leases, NEW p,
             \/ UNCHANGED phase
             \/ phase' = [phase EXCEPT ![l] = p] /\ (Live(l) \/ p = "gone")
             \/ phase' = [phase EXCEPT ![l] = p] /\ ~closed /\ HasCapacity
      PROVE  ClientsAdded
  BY <1>1 DEF ClientsAdded, Live, TypeOK
<1>2. ASSUME UNCHANGED <<closed, evicted, deleted, phase, task>> PROVE ClientsAdded
  BY <1>2 DEF ClientsAdded, Live
<1>3. ASSUME NEW h \in Holders, GetOrCreate(h), UNCHANGED <<closed, evicted, deleted>> PROVE ClientsAdded
  <2>1. CASE UNCHANGED <<creating, phase, task>>
    BY <1>2, <1>3, <2>1
  <2>2. CASE HasCapacity /\ \E l \in Leases : Fresh(l) /\ phase' = [phase EXCEPT ![l] = "connecting"]
    BY <1>1, <1>3, <2>2 DEF Fresh
  <2>3. QED
    BY <1>3, <2>1, <2>2 DEF GetOrCreate
<1>4. ASSUME NEW h \in Holders, Acquire(h) PROVE ClientsAdded
  BY <1>2, <1>3, <1>4 DEF Acquire, acquireFrame, historyVars
<1>5. ASSUME NEW h \in Holders, AfterDisposal(h) PROVE ClientsAdded
  BY <1>2, <1>3, <1>5 DEF AfterDisposal, acquireFrame, historyVars
<1>6. ASSUME NEW h \in Holders, Start(h) PROVE ClientsAdded
  <2>1. UNCHANGED <<closed, evicted, deleted, task>>
    BY <1>6 DEF Start, historyVars
  <2>2. CASE UNCHANGED phase
    BY <1>2, <2>1, <2>2
  <2>3. CASE HasCapacity /\ \E l \in Leases : Fresh(l) /\ phase' = [phase EXCEPT ![l] = "connecting"]
    BY <1>1, <2>1, <2>3 DEF Fresh
  <2>4. QED
    BY <1>6, <2>2, <2>3 DEF Start
<1>7. ASSUME NEW h \in Holders, AbandonStart(h) \/ BindStarted(h), Starting(h),
             UNCHANGED <<closed, evicted, deleted>>
      PROVE  ClientsAdded
  <2>1. at[h] \in Leases /\ Live(at[h])
    BY <1>7 DEF Bookkeeping, HoldersKnown, HolderKnown, TypeOK, Live
  <2>2. \E p : phase' = [phase EXCEPT ![at[h]] = p]
    BY <1>7 DEF AbandonStart, BindStarted, CloseLease
  <2>3. closed => UNCHANGED task
    BY <1>7 DEF AbandonStart, BindStarted
  <2>4. QED
    BY <1>1, <1>7, <2>1, <2>2, <2>3
<1>8. ASSUME NEW h \in Holders, Initialized(h) PROVE ClientsAdded
  <2>1. UNCHANGED <<closed, evicted, deleted>> /\ Starting(h)
    BY <1>8 DEF Initialized, startFrame, Starting
  <2>2. CASE AbandonStart(h) \/ BindStarted(h)
    BY <1>7, <2>1, <2>2
  <2>3. CASE UNCHANGED <<phase, task>>
    BY <1>2, <2>1, <2>3
  <2>4. QED
    BY <1>8, <2>2, <2>3 DEF Initialized
<1>9. ASSUME NEW h \in Holders, StartAfterDisposal(h) PROVE ClientsAdded
  BY <1>7, <1>9 DEF StartAfterDisposal, startFrame, Starting
<1>10. ASSUME NEW l \in Leases, NEW r, UNCHANGED <<closed, evicted, deleted, task>>,
              \/ phase[l] = "open" /\ Dispose(l)
              \/ DisposeIfIdle(l, r)
              \/ UNCHANGED phase
       PROVE  ClientsAdded
  <2>1. CASE UNCHANGED phase
    BY <1>2, <1>10, <2>1
  <2>2. CASE phase[l] = "open" /\ phase' = [phase EXCEPT ![l] = "closing"]
    BY <1>1, <1>10, <2>2 DEF Live
  <2>3. QED
    BY <1>10, <2>1, <2>2 DEF DisposeIfIdle, Disposable, Dispose, CloseLease
<1>11. ASSUME NEW h \in Holders, Attach(h) PROVE ClientsAdded
  <2>1. at[h] \in Leases
    BY <1>11 DEF Attach, Bookkeeping, HoldersKnown, HolderKnown
  <2>2. QED
    BY <1>10, <1>11, <2>1 DEF Attach, historyVars
<1>12. ASSUME NEW h \in Holders, Release(h) PROVE ClientsAdded
  <2>1. at[h] \in Leases
    BY <1>12 DEF Release, Bookkeeping, HoldersKnown, HolderKnown
  <2>2. QED
    BY <1>10, <1>12, <2>1 DEF Release, historyVars
<1>13. ASSUME NEW l \in Leases, NEW why \in {"idle", "lost"}, Sweep(l, why) PROVE ClientsAdded
  BY <1>10, <1>13 DEF Sweep, historyVars
<1>14. ASSUME NEW h \in Holders, CloseOwner(h) PROVE ClientsAdded
  BY <1>2, <1>14 DEF CloseOwner, managerVars, leaseVars, historyVars
<1>15. ASSUME noteFrame PROVE ClientsAdded
  BY <1>2, <1>15 DEF noteFrame, managerVars, historyVars
<1>16. CASE \/ \E h \in Holders : NoteTurnStarted(h)
            \/ \E h \in Holders, s \in {"idle", "active", "systemError"} : Adopt(h, s)
            \/ \E l \in Leases : Ask(l)
            \/ \E l \in Leases : Answer(l)
            \/ \E l \in Leases, n \in Notifications : Notify(l, n)
  BY <1>15, <1>16 DEF NoteTurnStarted, Adopt, Ask, Answer, Notify
<1>17. ASSUME NEW l \in Leases, Connected(l) PROVE ClientsAdded
  BY <1>1, <1>17 DEF Connected, Live
<1>18. ASSUME NEW l \in Leases, Closed(l) PROVE ClientsAdded
  BY <1>1, <1>18 DEF Closed
<1>19. ASSUME NEW l \in Leases, Lose(l) PROVE ClientsAdded
  BY <1>19 DEF ClientsAdded, Lose, managerVars, Live
<1>20. ASSUME NEW t \in Tasks, CloseThread(t) PROVE ClientsAdded
  <2>1. leases[t] \in Leases /\ phase[leases[t]] = "open"
    BY <1>20 DEF CloseThread, Bookkeeping, MapsAgree, TypeOK
  <2>2. QED
    BY <1>20, <2>1 DEF ClientsAdded, CloseThread, CloseLease, Live, TypeOK
<1>21. CASE CloseManager
  BY <1>21 DEF ClientsAdded, CloseManager, Live, TypeOK
<1>22. QED
  BY NextCases, <1>4, <1>5, <1>6, <1>8, <1>9, <1>11, <1>12, <1>13, <1>14, <1>16, <1>17, <1>18,
     <1>19, <1>20, <1>21

(* Every step keeps one client per task. *)
LEMMA OneClientStep ==
    ASSUME TypeOK, TypeOK', Bookkeeping, Bookkeeping', OneClientPerTask, Next
    PROVE  OneClientPerTask'
<1>1. CASE ~closed'
  <2> SUFFICES ASSUME NEW l \in Leases, NEW m \in Leases, l # m, Live(l)', Live(m)',
                      task'[l] # None, task'[l] = task'[m], {l, m} \cap (deleted' \cup evicted') = {}
               PROVE  FALSE
    BY DEF OneClientPerTask
  <2>1. \A x \in {l, m} : x = leases'[task'[x]] \/ x = creating'[task'[x]] \/ x = disposing'[task'[x]]
    BY <1>1 DEF Bookkeeping, ClientsKnown, Live
  <2>2. task'[l] \in Tasks
    BY DEF TypeOK
  <2>3. QED
    BY <2>1, <2>2 DEF Bookkeeping, MapsAgree
<1>2. CASE closed'
  BY <1>2, LiveMoves DEF ClientsAdded, OneClientPerTask
<1>3. QED
  BY <1>1, <1>2

(* A map of the manager counts each of its clients once. *)
LEMMA EntriesCount ==
    ASSUME NEW f \in [Tasks -> Leases \cup {None}], TypeOK,
           \A t \in Tasks : f[t] # None => task[f[t]] = t
    PROVE  /\ IsFiniteSet(Entries(f)) /\ IsFiniteSet({f[t] : t \in Entries(f)})
           /\ Cardinality({f[t] : t \in Entries(f)}) <= Cardinality(Entries(f))
<1> DEFINE g == [t \in Entries(f) |-> f[t]]
           I == {f[t] : t \in Entries(f)}
<1>1. IsFiniteSet(Leases)
  BY FS_Interval, LeaseBoundsAssumption DEF Leases
<1>2. g \in Injection(Entries(f), Leases)
  <2>1. g \in [Entries(f) -> Leases]
    BY DEF Entries
  <2>2. \A a, b \in Entries(f) : f[a] = f[b] => a = b
    BY DEF Entries
  <2>3. QED
    BY <2>1, <2>2 DEF Injection, IsInjective
<1>3. IsFiniteSet(Entries(f))
  BY <1>1, <1>2, FS_Injection
<1>4. g \in Surjection(Entries(f), I)
  BY DEF Surjection
<1>5. QED
  BY <1>3, <1>4, FS_Surjection

(* The clients that #assertCapacity counts are all there are. *)
LEMMA ClientsCounted ==
    ASSUME TypeOK, Bookkeeping, ~closed, HasCapacity
    PROVE  /\ IsFiniteSet({l \in Leases \ deleted : Live(l)})
           /\ Cardinality({l \in Leases \ deleted : Live(l)}) < maximumLeases
<1> DEFINE I(f) == {f[t] : t \in Entries(f)}
           L == {l \in Leases \ deleted : Live(l)}
           A == I(leases)
           B == I(creating)
           C == I(disposing)
<1>1. L \subseteq ((A \cup B) \cup C) \cup starting
  <2> SUFFICES ASSUME NEW l \in L PROVE l \in A \/ l \in B \/ l \in C \/ l \in starting
    OBVIOUS
  <2>1. CASE l \notin starting
    <3>1. task[l] \in Tasks /\ l # None
      BY <2>1 DEF Bookkeeping, ClientsKnown, Live, TypeOK
    <3>2. l = leases[task[l]] \/ l = creating[task[l]] \/ l = disposing[task[l]]
      BY <2>1 DEF Bookkeeping, ClientsKnown, Live
    <3>3. QED
      BY <3>1, <3>2 DEF Entries
  <2>2. QED
    BY <2>1
<1>2. /\ IsFiniteSet(A) /\ IsFiniteSet(Entries(leases))
      /\ Cardinality(A) <= Cardinality(Entries(leases))
  <2>1. /\ leases \in [Tasks -> Leases \cup {None}]
        /\ \A t \in Tasks : leases[t] # None => task[leases[t]] = t
    BY DEF TypeOK, Bookkeeping, MapsAgree
  <2>2. QED
    BY <2>1, EntriesCount
<1>3. /\ IsFiniteSet(B) /\ IsFiniteSet(Entries(creating))
      /\ Cardinality(B) <= Cardinality(Entries(creating))
  <2>1. /\ creating \in [Tasks -> Leases \cup {None}]
        /\ \A t \in Tasks : creating[t] # None => task[creating[t]] = t
    BY DEF TypeOK, Bookkeeping, MapsAgree
  <2>2. QED
    BY <2>1, EntriesCount
<1>4. /\ IsFiniteSet(C) /\ IsFiniteSet(Entries(disposing))
      /\ Cardinality(C) <= Cardinality(Entries(disposing))
  <2>1. /\ disposing \in [Tasks -> Leases \cup {None}]
        /\ \A t \in Tasks : disposing[t] # None => task[disposing[t]] = t
    BY DEF TypeOK, Bookkeeping, MapsAgree
  <2>2. QED
    BY <2>1, EntriesCount
<1>5. IsFiniteSet(starting)
  <2>1. IsFiniteSet(Leases)
    BY FS_Interval, LeaseBoundsAssumption DEF Leases
  <2>2. QED
    BY <2>1, FS_Subset DEF TypeOK
<1> HIDE DEF A, B, C, L
<1>6. \A S, T : IsFiniteSet(S) /\ IsFiniteSet(T) =>
         /\ IsFiniteSet(S \cup T) /\ Cardinality(S) \in Nat /\ Cardinality(T) \in Nat
         /\ Cardinality(S \cup T) \in Nat
         /\ Cardinality(S \cup T) <= Cardinality(S) + Cardinality(T)
  <2> SUFFICES ASSUME NEW S, NEW T, IsFiniteSet(S), IsFiniteSet(T)
               PROVE  /\ IsFiniteSet(S \cup T) /\ Cardinality(S) \in Nat /\ Cardinality(T) \in Nat
                      /\ Cardinality(S \cup T) \in Nat
                      /\ Cardinality(S \cup T) <= Cardinality(S) + Cardinality(T)
    OBVIOUS
  <2>1. /\ IsFiniteSet(S \cup T)
        /\ Cardinality(S \cup T) = Cardinality(S) + Cardinality(T) - Cardinality(S \cap T)
    BY FS_Union
  <2>2. IsFiniteSet(S \cap T)
    BY FS_Intersection
  <2>3. /\ Cardinality(S) \in Nat /\ Cardinality(T) \in Nat /\ Cardinality(S \cap T) \in Nat
        /\ Cardinality(S \cup T) \in Nat
    BY <2>1, <2>2, FS_CardinalityType
  <2>4. QED
    BY <2>1, <2>3
<1>7. /\ IsFiniteSet(((A \cup B) \cup C) \cup starting)
      /\ Cardinality(((A \cup B) \cup C) \cup starting) \in Nat
      /\ Cardinality(((A \cup B) \cup C) \cup starting) <=
            Cardinality(A) + Cardinality(B) + Cardinality(C) + Cardinality(starting)
      /\ Cardinality(A) \in Nat /\ Cardinality(B) \in Nat /\ Cardinality(C) \in Nat
      /\ Cardinality(starting) \in Nat
  <2>1. IsFiniteSet(A \cup B) /\ IsFiniteSet((A \cup B) \cup C)
    BY <1>2, <1>3, <1>4, <1>6
  <2>2. /\ Cardinality(A \cup B) <= Cardinality(A) + Cardinality(B)
        /\ Cardinality((A \cup B) \cup C) <= Cardinality(A \cup B) + Cardinality(C)
        /\ Cardinality(((A \cup B) \cup C) \cup starting) <=
              Cardinality((A \cup B) \cup C) + Cardinality(starting)
        /\ IsFiniteSet(((A \cup B) \cup C) \cup starting)
    BY <1>2, <1>3, <1>4, <1>5, <1>6, <2>1
  <2>3. /\ Cardinality(A) \in Nat /\ Cardinality(B) \in Nat /\ Cardinality(C) \in Nat
        /\ Cardinality(starting) \in Nat /\ Cardinality(A \cup B) \in Nat
        /\ Cardinality((A \cup B) \cup C) \in Nat
        /\ Cardinality(((A \cup B) \cup C) \cup starting) \in Nat
    BY <1>2, <1>3, <1>4, <1>5, <2>1, <2>2, FS_CardinalityType
  <2>4. QED
    BY <2>2, <2>3
<1>8. IsFiniteSet(L) /\ Cardinality(L) <= Cardinality(((A \cup B) \cup C) \cup starting)
      /\ Cardinality(L) \in Nat
  BY <1>1, <1>7, FS_Subset, FS_CardinalityType
<1>9. /\ Cardinality(Entries(leases)) \in Nat /\ Cardinality(Entries(creating)) \in Nat
      /\ Cardinality(Entries(disposing)) \in Nat
  BY <1>2, <1>3, <1>4, FS_CardinalityType
<1>10. IsFiniteSet(L) /\ Cardinality(L) < maximumLeases
  BY <1>2, <1>3, <1>4, <1>7, <1>8, <1>9, LeaseBoundsAssumption DEF HasCapacity
<1>11. QED
  BY <1>10 DEF L

(* Every step keeps the number of clients within maximumLeases. *)
LEMMA CapacityStep ==
    ASSUME TypeOK, TypeOK', Bookkeeping, CapacityKept, Next
    PROVE  CapacityKept'
<1> DEFINE L == {l \in Leases \ deleted : Live(l)}
           M == {l \in Leases \ deleted' : Live(l)'}
<1>1. IsFiniteSet(Leases)
  BY FS_Interval, LeaseBoundsAssumption DEF Leases
<1>2. IsFiniteSet(L) /\ Cardinality(L) \in Nat /\ IsFiniteSet(M) /\ Cardinality(M) \in Nat
  <2>1. L \in SUBSET Leases /\ M \in SUBSET Leases
    OBVIOUS
  <2> HIDE DEF L, M
  <2>2. QED
    BY <1>1, <2>1, FS_Subset, FS_CardinalityType
<1>3. deleted \subseteq deleted'
  BY LiveMoves DEF ClientsAdded
<1>4. CASE \A m \in Leases : Live(m)' => Live(m)
  <2>1. M \in SUBSET L
    BY <1>3, <1>4
  <2> HIDE DEF L, M
  <2>2. Cardinality(M) <= Cardinality(L)
    BY <1>2, <2>1, FS_Subset
  <2>3. QED
    BY <1>2, <2>2, LeaseBoundsAssumption DEF CapacityKept, L, M
<1>5. ASSUME ~closed, HasCapacity, NEW l \in Leases,
             \A m \in Leases : Live(m)' => Live(m) \/ m = l
      PROVE  CapacityKept'
  <2>1. M \in SUBSET (L \cup {l})
    BY <1>3, <1>5
  <2>2. Cardinality(L) < maximumLeases
    BY <1>5, ClientsCounted
  <2> HIDE DEF L, M
  <2>3. /\ IsFiniteSet(L \cup {l})
        /\ Cardinality(L \cup {l}) \in {Cardinality(L), Cardinality(L) + 1}
    BY <1>2, FS_AddElement
  <2>4. Cardinality(M) <= Cardinality(L \cup {l})
    BY <2>1, <2>3, FS_Subset
  <2>5. Cardinality(M) <= maximumLeases
    BY <1>2, <2>2, <2>3, <2>4, LeaseBoundsAssumption
  <2>6. QED
    BY <2>5 DEF CapacityKept, M
<1>6. QED
  BY <1>4, <1>5, LiveMoves DEF ClientsAdded

-----------------------------------------------------------------------------
(***************************************************************************)
(* Busy leases                                                             *)
(***************************************************************************)
(* No step closes a busy lease for idleness. *)
LEMMA BusyStep ==
    ASSUME TypeOK, Bookkeeping, Next
    PROVE  BusyLeaseStays
<1>1. ASSUME \A l \in Leases : phase[l] = "open" => phase'[l] # "closing"
      PROVE  BusyLeaseStays
  BY <1>1 DEF BusyLeaseStays
<1>2. ASSUME UNCHANGED phase PROVE BusyLeaseStays
  BY <1>1, <1>2
<1>3. ASSUME NEW l \in Leases, NEW r, DisposeIfIdle(l, r), r = refs'[l]
      PROVE  BusyLeaseStays
  <2>1. CASE UNCHANGED phase
    BY <1>2, <2>1
  <2>2. CASE Disposable(l, r) /\ phase' = [phase EXCEPT ![l] = "closing"]
    BY <1>3, <2>2 DEF BusyLeaseStays, Disposable, TypeOK
  <2>3. QED
    BY <1>3, <2>1, <2>2 DEF DisposeIfIdle, Dispose, CloseLease
<1>4. ASSUME NEW h \in Holders, GetOrCreate(h) PROVE BusyLeaseStays
  BY <1>1, <1>4 DEF GetOrCreate, TypeOK
<1>5. ASSUME NEW h \in Holders, Acquire(h) PROVE BusyLeaseStays
  BY <1>2, <1>4, <1>5 DEF Acquire
<1>6. ASSUME NEW h \in Holders, AfterDisposal(h) PROVE BusyLeaseStays
  BY <1>2, <1>4, <1>6 DEF AfterDisposal
<1>7. ASSUME NEW h \in Holders, Start(h) PROVE BusyLeaseStays
  BY <1>1, <1>7 DEF Start, TypeOK
<1>8. ASSUME NEW h \in Holders, AbandonStart(h) \/ BindStarted(h), Starting(h)
      PROVE  BusyLeaseStays
  <2>1. at[h] \in Leases /\ phase[at[h]] = "connecting"
    BY <1>8 DEF Bookkeeping, HoldersKnown, HolderKnown, TypeOK
  <2>2. \E p : phase' = [phase EXCEPT ![at[h]] = p]
    BY <1>8 DEF AbandonStart, BindStarted, CloseLease
  <2>3. QED
    BY <1>1, <2>1, <2>2 DEF TypeOK
<1>9. ASSUME NEW h \in Holders, Initialized(h) PROVE BusyLeaseStays
  <2>1. Starting(h)
    BY <1>9 DEF Initialized, Starting
  <2>2. QED
    BY <1>2, <1>8, <1>9, <2>1 DEF Initialized
<1>10. ASSUME NEW h \in Holders, StartAfterDisposal(h) PROVE BusyLeaseStays
  BY <1>8, <1>10 DEF StartAfterDisposal, Starting
<1>11. ASSUME NEW h \in Holders, Attach(h) PROVE BusyLeaseStays
  <2>1. at[h] \in Leases
    BY <1>11 DEF Attach, Bookkeeping, HoldersKnown, HolderKnown
  <2>2. QED
    BY <1>2, <1>3, <1>11, <2>1 DEF Attach
<1>12. ASSUME NEW h \in Holders, Release(h) PROVE BusyLeaseStays
  <2>1. at[h] \in Leases
    BY <1>12 DEF Release, Bookkeeping, HoldersKnown, HolderKnown
  <2>2. QED
    BY <1>3, <1>12, <2>1 DEF Release
<1>13. ASSUME NEW l \in Leases, NEW why \in {"idle", "lost"}, Sweep(l, why)
       PROVE  BusyLeaseStays
  <2>1. CASE DisposeIfIdle(l, refs[l])
    BY <1>3, <1>13, <2>1 DEF Sweep
  <2>2. CASE why = "lost" /\ Dispose(l)
    <3>1. l \in evicted' /\ (UNCHANGED phase \/ phase' = [phase EXCEPT ![l] = "closing"])
      BY <1>13, <2>2 DEF Sweep, historyVars, Bookkeeping, ClientsKnown, Dispose, CloseLease
    <3>2. QED
      BY <3>1 DEF BusyLeaseStays, TypeOK
  <2>3. QED
    BY <1>13, <2>1, <2>2 DEF Sweep
<1>14. CASE \/ \E h \in Holders : CloseOwner(h)
            \/ \E h \in Holders : NoteTurnStarted(h)
            \/ \E h \in Holders, s \in {"idle", "active", "systemError"} : Adopt(h, s)
  BY <1>2, <1>14 DEF CloseOwner, leaseVars, NoteTurnStarted, Adopt, noteFrame
<1>15. CASE \/ \E l \in Leases : Ask(l)
            \/ \E l \in Leases : Answer(l)
            \/ \E l \in Leases : Lose(l)
            \/ \E l \in Leases, n \in Notifications : Notify(l, n)
  BY <1>2, <1>15 DEF Ask, Answer, Lose, Notify, noteFrame
<1>16. ASSUME NEW l \in Leases, Connected(l) PROVE BusyLeaseStays
  BY <1>1, <1>16 DEF Connected, TypeOK
<1>17. ASSUME NEW l \in Leases, Closed(l) PROVE BusyLeaseStays
  BY <1>1, <1>17 DEF Closed, TypeOK
<1>18. ASSUME NEW t \in Tasks, CloseThread(t) PROVE BusyLeaseStays
  <2>1. leases[t] \in Leases /\ leases[t] \in deleted'
    BY <1>18 DEF CloseThread, TypeOK
  <2>2. QED
    BY <1>18, <2>1 DEF CloseThread, CloseLease, BusyLeaseStays, TypeOK
<1>19. CASE CloseManager
  BY <1>19 DEF CloseManager, BusyLeaseStays, TypeOK
<1>20. QED
  BY NextCases, <1>5, <1>6, <1>7, <1>9, <1>10, <1>11, <1>12, <1>13, <1>14, <1>15, <1>16,
     <1>17, <1>18, <1>19

-----------------------------------------------------------------------------
(***************************************************************************)
(* The theorems                                                            *)
(***************************************************************************)
(* A manager that was just made satisfies the invariant. *)
LEMMA LeaseInit ==
    ASSUME Init PROVE LeaseInv
<1>1. TypeOK
  <2>1. /\ leases \in [Tasks -> Leases \cup {None}] /\ creating \in [Tasks -> Leases \cup {None}]
        /\ disposing \in [Tasks -> Leases \cup {None}] /\ closed \in BOOLEAN
    BY DEF Init, NoLeases
  <2>2. /\ phase \in [Leases -> {"free", "connecting", "open", "closing", "gone"}]
        /\ task \in [Leases -> Tasks \cup {None}] /\ state \in [Leases -> States]
        /\ asks \in [Leases -> {0, 1}]
    BY DEF Init, States
  <2>3. /\ refs \in [Leases -> SUBSET Holders]
        /\ sweeps \in [Leases -> SUBSET {"idle", "lost"}]
    BY DEF Init
  <2>4. /\ pc \in [Holders -> {"idle", "disposal", "attach", "holding", "starting",
                               "abandoning", "refused"}]
        /\ at \in [Holders -> Leases \cup {None}] /\ awaits \in [Holders -> Leases \cup {None}]
        /\ scoped \in [Holders -> BOOLEAN]
    BY DEF Init
  <2>5. failures \in 0 .. MaxFailures
    BY LeaseBoundsAssumption DEF Init
  <2>6. QED
    BY <2>1, <2>2, <2>3, <2>4, <2>5 DEF Init, TypeOK
<1>2. MapsAgree
  BY DEF Init, MapsAgree, NoLeases
<1>3. ClientsKnown
  BY DEF Init, ClientsKnown
<1>4. HoldersKnown /\ DisposalsAwaited /\ HeldLeaseStays
  BY DEF Init, HoldersKnown, HolderKnown, DisposalsAwaited, HeldLeaseStays, Starting
<1>5. OneClientPerTask
  BY DEF Init, OneClientPerTask, Live
<1>6. CapacityKept
  <2>1. {l \in Leases \ deleted : Live(l)} = {}
    BY DEF Init, Live
  <2>2. QED
    BY <2>1, FS_EmptySet, LeaseBoundsAssumption DEF CapacityKept
<1>7. QED
  BY <1>1, <1>2, <1>3, <1>4, <1>5, <1>6 DEF LeaseInv

(* Every step preserves it. *)
LEMMA LeaseStepKeeps ==
    ASSUME LeaseInv, [Next]_vars PROVE LeaseInv'
<1>1. CASE Next
  <2>1. TypeOK /\ Bookkeeping /\ OneClientPerTask /\ CapacityKept
    BY DEF LeaseInv, Bookkeeping
  <2>2. TypeOK'
    BY <1>1, <2>1, TypeStep DEF Bookkeeping
  <2>3. Bookkeeping'
    BY <1>1, <2>1, <2>2, BookkeepingStep
  <2>4. OneClientPerTask' /\ CapacityKept'
    BY <1>1, <2>1, <2>2, <2>3, OneClientStep, CapacityStep
  <2>5. QED
    BY <2>2, <2>3, <2>4 DEF LeaseInv, Bookkeeping
<1>2. CASE UNCHANGED vars
  BY <1>2 DEF vars, managerVars, leaseVars, holderVars, historyVars, LeaseInv, TypeOK,
              MapsAgree, NoLeases, ClientsKnown, HoldersKnown, HolderKnown, Starting,
              DisposalsAwaited, Awaited, HeldLeaseStays, OneClientPerTask, CapacityKept, Live
<1>3. QED
  BY <1>1, <1>2

(* The maps of ThreadLeaseManager, its clients and its callers stay in agreement
   through every order of calls, answers, cleanups, failures and closes. *)
THEOREM LeaseInvariant == Spec => []LeaseInv
<1>1. Init => LeaseInv
  BY LeaseInit
<1>2. LeaseInv /\ [Next]_vars => LeaseInv'
  BY LeaseStepKeeps
<1>3. QED
  BY <1>1, <1>2, PTL DEF Spec

(* acquire, start, #dispose, closeThread: a holder keeps its client, a task has one,
   the limit is kept, and no cleanup closes a busy lease. *)
THEOREM LeasesAreSafe == Spec => LeaseSafety
<1>1. LeaseInv => HeldLeaseStays /\ OneClientPerTask /\ CapacityKept
  BY DEF LeaseInv
<1>2. LeaseInv /\ [Next]_vars => [BusyLeaseStays]_vars
  <2> SUFFICES ASSUME LeaseInv, Next PROVE BusyLeaseStays
    OBVIOUS
  <2>1. QED
    BY BusyStep DEF LeaseInv, Bookkeeping
<1>3. QED
  BY <1>1, <1>2, LeaseInvariant, PTL DEF Spec, LeaseSafety
=============================================================================
