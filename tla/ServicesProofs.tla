--------------------------- MODULE ServicesProofs ----------------------------
(***************************************************************************)
(* Proofs about two services of a host.                                    *)
(*                                                                         *)
(* Admin, for any set of helper and maintenance processes and any number   *)
(* of requests and faults: the inductive invariant, and what the marker,   *)
(* the row and the files of a managed user promise.  The invariant has one *)
(* lemma per part; each goes through the actions.                          *)
(*                                                                         *)
(* Runtime, for any number of starts, installations, turns and calls, and  *)
(* any crashes, reboots and processes that hang or die: a user never has   *)
(* two app-servers, and no restart ends one that is at work.               *)
(***************************************************************************)
EXTENDS Admin, Runtime, FiniteSetTheorems, TLAPS

USE BoundsAssumption

-----------------------------------------------------------------------------
(***************************************************************************)
(* What every step keeps                                                   *)
(***************************************************************************)
(* The watchdog's script writes neither the row, the marker nor the files: what is left of
   the agent after its step is what was there, or nothing. *)
LEMMA WatchFrame ==
    ASSUME TypeOK, WatchdogTick \/ TickRotate \/ TickDies
    PROVE  /\ UNCHANGED <<user, marker, data, watchdog, ops, requests, crossed, doubled, slipped>>
           /\ agent' \in {agent, NoAgent} /\ session' \in BOOLEAN
           /\ tick' \in {"free", "shut", "open", "stale"} /\ faults' \in 0..MaxFaults
<1>1. CASE TickLook \/ TickOpen
  BY <1>1 DEF TickLook, TickOpen, TypeOK, account, ghosts
<1>2. CASE TickShut \/ TickRotate
  BY <1>2 DEF TickShut, TickRotate, SessionEnds, TypeOK, account, ghosts
<1>3. CASE TickDies
  BY <1>3 DEF TickDies, TypeOK, account, ghosts
<1>4. QED
  BY <1>1, <1>2, <1>3 DEF WatchdogTick

(* Every step keeps every variable in its type. *)
LEMMA TypeStep ==
    ASSUME AdminInv, [Next]_vars
    PROVE  TypeOK'
<1>a. TypeOK
  BY DEF AdminInv
<1>b. StepsOfKinds
  BY DEF AdminInv
<1>1. ASSUME NEW o \in Op, Claim(o) PROVE TypeOK'
  BY <1>a, <1>1 DEF TypeOK, Claim, SetStatus, host, ghosts, Status
<1>2. ASSUME NEW o \in Op, Mark(o) PROVE TypeOK'
  BY <1>a, <1>2 DEF TypeOK, Mark, host, ghosts, Go
<1>3. ASSUME NEW o \in Op, StopAgent(o) PROVE TypeOK'
  <2>1. AfterStop(ops[o].kind) \in {"commit", "handoff", "wipe"}
    BY <1>b, <1>3 DEF StopAgent, StepsOfKinds, Shutting, AfterStop
  <2>2. /\ ops' \in [Op -> [kind : Request \cup {"none", "maintain"},
                            at : {"idle", "claim", "mark", "stop", "wipe", "handoff",
                                  "commit", "unmark", "end"},
                            revision : Nat]]
        /\ agent' \in [at : {"off", "starting", "running"}, tmux : BOOLEAN]
    BY <1>a, <1>3, <2>1 DEF StopAgent, Go, TypeOK, NoAgent
  <2>3. session' \in BOOLEAN
    BY <1>3, Zenon DEF StopAgent
  <2>4. QED
    BY <1>a, <1>3, <2>2, <2>3 DEF StopAgent, TypeOK, account, ghosts
<1>4. ASSUME NEW o \in Op, Wipe(o) PROVE TypeOK'
  <2>1. data' \in BOOLEAN /\ watchdog' \in BOOLEAN
    BY <1>4, Zenon DEF Wipe
  <2>2. QED
    BY <1>a, <1>4, <2>1 DEF Wipe, Go, TypeOK, account, ghosts
<1>5. ASSUME NEW o \in Op, Handoff(o) PROVE TypeOK'
  <2>1. slipped' \in BOOLEAN
    BY <1>5, Zenon DEF Handoff
  <2>2. QED
    BY <1>a, <1>5, <2>1 DEF Handoff, Go, TypeOK, account
<1>6. ASSUME NEW o \in Op, Commit(o) PROVE TypeOK'
  <2>1. ops[o].kind \notin {"none", "recover"}
    BY <1>b, <1>6 DEF Commit, StepsOfKinds
  <2>2. Target(ops[o].kind) \in Status
    BY <1>a, <2>1 DEF TypeOK, Target, Status, Request
  <2>3. user' \in [status : Status, revision : Nat, due : BOOLEAN]
    <3>1. /\ user \in [status : Status, revision : Nat, due : BOOLEAN]
          /\ user.revision + 1 \in Nat
      BY <1>a DEF TypeOK
    <3>2. \/ user' = [status |-> Target(ops[o].kind), revision |-> user.revision + 1,
                      due |-> FALSE]
          \/ UNCHANGED user
      BY <1>6 DEF Commit, SetStatus
    <3>3. QED
      <4>1. \A s \in Status : [status |-> s, revision |-> user.revision + 1, due |-> FALSE]
                                \in [status : Status, revision : Nat, due : BOOLEAN]
        BY <3>1
      <4>2. QED
        BY <2>2, <3>1, <3>2, <4>1, Zenon
  <2>4. ops' \in [Op -> [kind : Request \cup {"none", "maintain"},
                         at : {"idle", "claim", "mark", "stop", "wipe", "handoff",
                               "commit", "unmark", "end"},
                         revision : Nat]]
    <3>1. \A at \in {"unmark", "end"} :
             [kind |-> ops[o].kind, at |-> at, revision |-> user.revision + 1]
               \in [kind : Request \cup {"none", "maintain"},
                    at : {"idle", "claim", "mark", "stop", "wipe", "handoff",
                          "commit", "unmark", "end"},
                    revision : Nat]
      BY <1>a DEF TypeOK
    <3>2. QED
      BY <1>a, <1>6, <3>1 DEF Commit, Go, TypeOK
  <2>5. UNCHANGED <<marker, host, requests, faults, ghosts>>
    BY <1>6 DEF Commit
  <2>6. QED
    BY <1>a, <2>3, <2>4, <2>5 DEF TypeOK, host, ghosts
<1>7. ASSUME NEW o \in Op, Refused(o) PROVE TypeOK'
  BY <1>a, <1>7 DEF TypeOK, Refused, account, host, ghosts, Go
<1>8. ASSUME NEW o \in Op, Unmark(o) PROVE TypeOK'
  <2>1. crossed' \in BOOLEAN
    BY <1>8, Zenon DEF Unmark
  <2>2. QED
    BY <1>a, <1>8, <2>1, ZenonT(40) DEF Unmark, Go, TypeOK, host
<1>9. ASSUME NEW o \in Op, End(o) PROVE TypeOK'
  BY <1>a, <1>9 DEF TypeOK, End, account, host, ghosts, Idle
<1>10. ASSUME NEW o \in Op, Fault(o) PROVE TypeOK'
  BY <1>a, <1>10 DEF TypeOK, Fault, account, host, ghosts, Idle
<1>11. ASSUME NEW o \in Op, MaintenanceBegin(o) PROVE TypeOK'
  BY <1>a, <1>11 DEF TypeOK, MaintenanceBegin, account, host
<1>12. ASSUME NEW o \in Op, NEW k \in Request, Begin(o, k) PROVE TypeOK'
  BY <1>a, <1>12 DEF TypeOK, Begin, account, host, ghosts, Request, FirstStep
<1>13. CASE TimePasses
  BY <1>a, <1>13 DEF TypeOK, TimePasses, host, ghosts
<1>14. CASE WatchdogTick \/ TickRotate \/ TickDies
  <2>1. NoAgent \in [at : {"off", "starting", "running"}, tmux : BOOLEAN]
    BY DEF NoAgent
  <2>2. agent' \in [at : {"off", "starting", "running"}, tmux : BOOLEAN]
    BY <1>a, <1>14, <2>1, WatchFrame, Zenon DEF TypeOK
  <2>3. QED
    BY <1>a, <1>14, <2>2, WatchFrame, Zenon DEF TypeOK
<1>15. CASE AgentStart
  BY <1>a, <1>15 DEF TypeOK, AgentStart, account, ghosts
<1>16. CASE AgentReady
  BY <1>a, <1>16 DEF TypeOK, AgentReady, account
<1>17. CASE AgentDies
  <2>1. session' \in BOOLEAN
    BY <1>a, <1>17, Zenon DEF AgentDies, TypeOK
  <2>2. QED
    BY <1>a, <1>17, <2>1 DEF AgentDies, NoAgent, TypeOK, account, ghosts
<1>18. QED
  BY <1>a, <1>1, <1>2, <1>3, <1>4, <1>5, <1>6, <1>7, <1>8, <1>9, <1>10, <1>11, <1>12, <1>13,
     <1>14, <1>15, <1>16, <1>17
  DEF TypeOK, Next, OpStep, vars, account, host, ghosts

(* Every step leaves an operation at a step of its kind. *)
LEMMA KindsStep ==
    ASSUME AdminInv, [Next]_vars, TypeOK'
    PROVE  StepsOfKinds'
<1>a. StepsOfKinds
  BY DEF AdminInv
<1>b. TypeOK
  BY DEF AdminInv
<1>1. ASSUME NEW o \in Op, Claim(o) PROVE StepsOfKinds'
  BY <1>a, <1>1 DEF StepsOfKinds, Shutting, Claim
<1>2. ASSUME NEW o \in Op, Mark(o) PROVE StepsOfKinds'
  BY <1>a, <1>2 DEF StepsOfKinds, Mark, Go
<1>3. ASSUME NEW o \in Op, StopAgent(o) PROVE StepsOfKinds'
  BY <1>a, <1>3 DEF StepsOfKinds, Shutting, StopAgent, Go, AfterStop
<1>4. ASSUME NEW o \in Op, Wipe(o) PROVE StepsOfKinds'
  BY <1>a, <1>4 DEF StepsOfKinds, Wipe, Go
<1>5. ASSUME NEW o \in Op, Handoff(o) PROVE StepsOfKinds'
  BY <1>a, <1>5 DEF StepsOfKinds, Handoff, Go
<1>6. ASSUME NEW o \in Op, Commit(o) PROVE StepsOfKinds'
  BY <1>a, <1>6 DEF StepsOfKinds, TypeOK, Commit, Go
<1>7. ASSUME NEW o \in Op, Refused(o) PROVE StepsOfKinds'
  BY <1>a, <1>7 DEF StepsOfKinds, Refused, Go
<1>8. ASSUME NEW o \in Op, Unmark(o) PROVE StepsOfKinds'
  BY <1>a, <1>8 DEF StepsOfKinds, Unmark, Go
<1>9. ASSUME NEW o \in Op, End(o) PROVE StepsOfKinds'
  BY <1>a, <1>9 DEF StepsOfKinds, End, Idle
<1>10. ASSUME NEW o \in Op, Fault(o) PROVE StepsOfKinds'
  BY <1>a, <1>10 DEF StepsOfKinds, Fault, Idle
<1>11. ASSUME NEW o \in Op, MaintenanceBegin(o) PROVE StepsOfKinds'
  BY <1>a, <1>11 DEF StepsOfKinds, Shutting, MaintenanceBegin
<1>12. ASSUME NEW o \in Op, NEW k \in Request, Begin(o, k) PROVE StepsOfKinds'
  BY <1>a, <1>12 DEF StepsOfKinds, Shutting, Begin, Request, FirstStep
<1>13. CASE TimePasses
  BY <1>a, <1>13 DEF StepsOfKinds, TimePasses
<1>14. CASE WatchdogTick \/ TickRotate \/ TickDies
  BY <1>a, <1>b, <1>14, WatchFrame DEF StepsOfKinds
<1>15. CASE AgentStart
  BY <1>a, <1>15 DEF StepsOfKinds, AgentStart
<1>16. CASE AgentReady
  BY <1>a, <1>16 DEF StepsOfKinds, AgentReady
<1>17. CASE AgentDies
  BY <1>a, <1>17 DEF StepsOfKinds, AgentDies
<1>18. QED
  BY <1>a, <1>1, <1>2, <1>3, <1>4, <1>5, <1>6, <1>7, <1>8, <1>9, <1>10, <1>11, <1>12, <1>13,
     <1>14, <1>15, <1>16, <1>17
  DEF StepsOfKinds, Shutting, Next, OpStep, vars, account, host, ghosts

(* A revision is compared whenever the row is written, so an operation that read the
   present row read its present status. *)
LEMMA RowsStep ==
    ASSUME AdminInv, [Next]_vars, TypeOK'
    PROVE  RowsRead'
<1>a. RowsRead
  BY DEF AdminInv
<1>b. TypeOK
  BY DEF AdminInv
<1>c. StepsOfKinds
  BY DEF AdminInv
<1>1. ASSUME NEW o \in Op, Claim(o) PROVE RowsRead'
  BY <1>a, <1>b, <1>c, <1>1 DEF RowsRead, TypeOK, StepsOfKinds, Claim, SetStatus, Request
<1>2. ASSUME NEW o \in Op, Mark(o) PROVE RowsRead'
  BY <1>a, <1>2 DEF RowsRead, Mark, Go, Request
<1>3. ASSUME NEW o \in Op, StopAgent(o) PROVE RowsRead'
  BY <1>a, <1>c, <1>3
  DEF RowsRead, StepsOfKinds, Shutting, StopAgent, account, Go, Request, AfterStop
<1>4. ASSUME NEW o \in Op, Wipe(o) PROVE RowsRead'
  BY <1>a, <1>c, <1>4 DEF RowsRead, StepsOfKinds, Wipe, account, Go, Request
<1>5. ASSUME NEW o \in Op, Handoff(o) PROVE RowsRead'
  BY <1>a, <1>5 DEF RowsRead, Handoff, account, Go, Request
<1>6. ASSUME NEW o \in Op, Commit(o) PROVE RowsRead'
  BY <1>a, <1>b, <1>6 DEF RowsRead, TypeOK, Commit, SetStatus, Go, Request, Target
<1>7. ASSUME NEW o \in Op, Refused(o) PROVE RowsRead'
  BY <1>a, <1>7 DEF RowsRead, Refused, account, Go, Request
<1>8. ASSUME NEW o \in Op, Unmark(o) PROVE RowsRead'
  BY <1>a, <1>8 DEF RowsRead, Unmark, Go, Request
<1>9. ASSUME NEW o \in Op, End(o) PROVE RowsRead'
  BY <1>a, <1>9 DEF RowsRead, TypeOK, End, account, Idle, Request
<1>10. ASSUME NEW o \in Op, Fault(o) PROVE RowsRead'
  BY <1>a, <1>10 DEF RowsRead, TypeOK, Fault, account, Idle, Request
<1>11. ASSUME NEW o \in Op, MaintenanceBegin(o) PROVE RowsRead'
  BY <1>a, <1>b, <1>11 DEF RowsRead, TypeOK, MaintenanceBegin, Due, account, Request
<1>12. ASSUME NEW o \in Op, NEW k \in Request, Begin(o, k) PROVE RowsRead'
  BY <1>a, <1>12 DEF RowsRead, TypeOK, Begin, account, Request, FirstStep
<1>13. CASE TimePasses
  BY <1>a, <1>13 DEF RowsRead, TimePasses, Request
<1>14. CASE WatchdogTick \/ TickRotate \/ TickDies
  BY <1>a, <1>b, <1>14, WatchFrame DEF RowsRead
<1>15. CASE AgentStart
  BY <1>a, <1>15 DEF RowsRead, AgentStart, account
<1>16. CASE AgentReady
  BY <1>a, <1>16 DEF RowsRead, AgentReady, account
<1>17. CASE AgentDies
  BY <1>a, <1>17 DEF RowsRead, AgentDies, account
<1>18. QED
  BY <1>a, <1>1, <1>2, <1>3, <1>4, <1>5, <1>6, <1>7, <1>8, <1>9, <1>10, <1>11, <1>12, <1>13,
     <1>14, <1>15, <1>16, <1>17
  DEF RowsRead, Next, OpStep, vars, account, host, ghosts

(* Only Unmark takes the marker away, and it knows whose it takes. *)
LEMMA MarkerStep ==
    ASSUME AdminInv, [Next]_vars, TypeOK'
    PROVE  MarkerStays'
<1>a. MarkerStays
  BY DEF AdminInv
<1>b. TypeOK
  BY DEF AdminInv
<1>c. StepsOfKinds
  BY DEF AdminInv
<1>e. ShutOutWhenNotEnabled
  BY DEF AdminInv
<1>1. ASSUME NEW o \in Op, Claim(o) PROVE MarkerStays'
  BY <1>a, <1>1 DEF MarkerStays, Marked, Claim, ghosts
<1>2. ASSUME NEW o \in Op, Mark(o) PROVE MarkerStays'
  BY <1>2 DEF MarkerStays, Mark
<1>3. ASSUME NEW o \in Op, StopAgent(o) PROVE MarkerStays'
  BY <1>a, <1>c, <1>3
  DEF MarkerStays, Marked, StepsOfKinds, StopAgent, account, ghosts, Go, AfterStop
<1>4. ASSUME NEW o \in Op, Wipe(o) PROVE MarkerStays'
  BY <1>a, <1>4 DEF MarkerStays, Marked, Wipe, account, ghosts
<1>5. ASSUME NEW o \in Op, Handoff(o) PROVE MarkerStays'
  BY <1>a, <1>5 DEF MarkerStays, Marked, Handoff, account, Go
<1>6. ASSUME NEW o \in Op, Commit(o) PROVE MarkerStays'
  BY <1>a, <1>6 DEF MarkerStays, Marked, TypeOK, Commit, ghosts, Go
<1>7. ASSUME NEW o \in Op, Refused(o) PROVE MarkerStays'
  BY <1>a, <1>7 DEF MarkerStays, Marked, Refused, account, ghosts, Go
<1>8. ASSUME NEW o \in Op, Unmark(o) PROVE MarkerStays'
  BY <1>a, <1>b, <1>8 DEF MarkerStays, Marked, Shutting, TypeOK, Unmark, MarkerContested, Go
<1>9. ASSUME NEW o \in Op, End(o) PROVE MarkerStays'
  BY <1>a, <1>9 DEF MarkerStays, Marked, End, account, ghosts, Idle
<1>10. ASSUME NEW o \in Op, Fault(o) PROVE MarkerStays'
  BY <1>a, <1>10 DEF MarkerStays, Marked, Fault, account, ghosts, Idle
<1>11. ASSUME NEW o \in Op, MaintenanceBegin(o) PROVE MarkerStays'
  BY <1>e, <1>11 DEF MarkerStays, ShutOutWhenNotEnabled, MaintenanceBegin, Due, account
<1>12. ASSUME NEW o \in Op, NEW k \in Request, Begin(o, k) PROVE MarkerStays'
  BY <1>a, <1>12
  DEF MarkerStays, Marked, Shutting, Begin, account, ghosts, Request, FirstStep
<1>13. CASE TimePasses
  BY <1>e, <1>13 DEF MarkerStays, ShutOutWhenNotEnabled, TimePasses, ghosts
<1>14. CASE WatchdogTick \/ TickRotate \/ TickDies
  BY <1>a, <1>b, <1>14, WatchFrame DEF MarkerStays, Marked
<1>15. CASE AgentStart
  BY <1>a, <1>15 DEF MarkerStays, Marked, AgentStart, ghosts
<1>16. CASE AgentReady
  BY <1>a, <1>16 DEF MarkerStays, Marked, AgentReady, account
<1>17. CASE AgentDies
  BY <1>a, <1>17 DEF MarkerStays, Marked, AgentDies, account, ghosts
<1>18. QED
  BY <1>a, <1>1, <1>2, <1>3, <1>4, <1>5, <1>6, <1>7, <1>8, <1>9, <1>10, <1>11, <1>12, <1>13,
     <1>14, <1>15, <1>16, <1>17
  DEF MarkerStays, Marked, Shutting, Next, OpStep, vars, account, host, ghosts

(* The marker is written before the row and removed after it. *)
LEMMA ShutOutStep ==
    ASSUME AdminInv, [Next]_vars, TypeOK'
    PROVE  ShutOutWhenNotEnabled'
<1>a. ShutOutWhenNotEnabled
  BY DEF AdminInv
<1>b. TypeOK
  BY DEF AdminInv
<1>c. MarkerStays
  BY DEF AdminInv
<1>d. StepsOfKinds
  BY DEF AdminInv
<1>e. RowsRead
  BY DEF AdminInv
<1>1. ASSUME NEW o \in Op, Claim(o) PROVE ShutOutWhenNotEnabled'
  BY <1>a, <1>e, <1>1 DEF ShutOutWhenNotEnabled, RowsRead, Claim, SetStatus, ghosts
<1>2. ASSUME NEW o \in Op, Mark(o) PROVE ShutOutWhenNotEnabled'
  BY <1>2 DEF ShutOutWhenNotEnabled, Mark
<1>3. ASSUME NEW o \in Op, StopAgent(o) PROVE ShutOutWhenNotEnabled'
  BY <1>a, <1>3 DEF ShutOutWhenNotEnabled, StopAgent, account, ghosts
<1>4. ASSUME NEW o \in Op, Wipe(o) PROVE ShutOutWhenNotEnabled'
  BY <1>a, <1>4 DEF ShutOutWhenNotEnabled, Wipe, account, ghosts
<1>5. ASSUME NEW o \in Op, Handoff(o) PROVE ShutOutWhenNotEnabled'
  BY <1>a, <1>5 DEF ShutOutWhenNotEnabled, Handoff, account
<1>6. ASSUME NEW o \in Op, Commit(o) PROVE ShutOutWhenNotEnabled'
  <2>1. CASE UNCHANGED user
    BY <1>a, <1>6, <2>1 DEF Commit, ShutOutWhenNotEnabled, ghosts
  <2>2. CASE user' # user
    <3>1. ops[o].at = "commit" /\ user'.status = Target(ops[o].kind)
      BY <1>6, <2>2 DEF Commit, SetStatus
    <3>2. ops[o].kind \in Shutting \/ Target(ops[o].kind) = "enabled"
      BY <1>b, <1>d, <3>1 DEF StepsOfKinds, Shutting, Target, TypeOK, Request
    <3>3. QED
      BY <1>a, <1>c, <1>6, <3>1, <3>2
      DEF Commit, ShutOutWhenNotEnabled, MarkerStays, Marked, ghosts
  <2>3. QED
    BY <2>1, <2>2
<1>7. ASSUME NEW o \in Op, Refused(o) PROVE ShutOutWhenNotEnabled'
  BY <1>a, <1>7 DEF ShutOutWhenNotEnabled, Refused, account, ghosts
<1>8. ASSUME NEW o \in Op, Unmark(o) PROVE ShutOutWhenNotEnabled'
  BY <1>e, <1>8 DEF ShutOutWhenNotEnabled, RowsRead, Unmark, MarkerContested
<1>9. ASSUME NEW o \in Op, End(o) PROVE ShutOutWhenNotEnabled'
  BY <1>a, <1>9 DEF ShutOutWhenNotEnabled, End, account, ghosts
<1>10. ASSUME NEW o \in Op, Fault(o) PROVE ShutOutWhenNotEnabled'
  BY <1>a, <1>10 DEF ShutOutWhenNotEnabled, Fault, account, ghosts
<1>11. ASSUME NEW o \in Op, MaintenanceBegin(o) PROVE ShutOutWhenNotEnabled'
  BY <1>a, <1>11 DEF ShutOutWhenNotEnabled, MaintenanceBegin, account
<1>12. ASSUME NEW o \in Op, NEW k \in Request, Begin(o, k) PROVE ShutOutWhenNotEnabled'
  BY <1>a, <1>12 DEF ShutOutWhenNotEnabled, Begin, account, ghosts
<1>13. CASE TimePasses
  BY <1>a, <1>13 DEF ShutOutWhenNotEnabled, TimePasses, ghosts
<1>14. CASE WatchdogTick \/ TickRotate \/ TickDies
  BY <1>a, <1>b, <1>14, WatchFrame DEF ShutOutWhenNotEnabled
<1>15. CASE AgentStart
  BY <1>a, <1>15 DEF ShutOutWhenNotEnabled, AgentStart, account, ghosts
<1>16. CASE AgentReady
  BY <1>a, <1>16 DEF ShutOutWhenNotEnabled, AgentReady, account
<1>17. CASE AgentDies
  BY <1>a, <1>17 DEF ShutOutWhenNotEnabled, AgentDies, account, ghosts
<1>18. QED
  BY <1>a, <1>1, <1>2, <1>3, <1>4, <1>5, <1>6, <1>7, <1>8, <1>9, <1>10, <1>11, <1>12, <1>13,
     <1>14, <1>15, <1>16, <1>17
  DEF ShutOutWhenNotEnabled, Next, OpStep, vars, account, host, ghosts

(* A claim is lost to nobody: every other operation has an older revision. *)
LEMMA ClaimStep ==
    ASSUME AdminInv, [Next]_vars, TypeOK'
    PROVE  ClaimHeld'
<1>a. ClaimHeld
  BY DEF AdminInv
<1>b. TypeOK
  BY DEF AdminInv
<1>c. RowsRead
  BY DEF AdminInv
<1>d. StepsOfKinds
  BY DEF AdminInv
<1>1. ASSUME NEW o \in Op, Claim(o) PROVE ClaimHeld'
  BY <1>a, <1>c, <1>1 DEF ClaimHeld, Removing, RowsRead, Claim, SetStatus, ghosts
<1>2. ASSUME NEW o \in Op, Mark(o) PROVE ClaimHeld'
  BY <1>a, <1>2 DEF ClaimHeld, Removing, Mark, ghosts, Go
<1>3. ASSUME NEW o \in Op, StopAgent(o) PROVE ClaimHeld'
  BY <1>a, <1>3 DEF ClaimHeld, Removing, StopAgent, account, ghosts, Go
<1>4. ASSUME NEW o \in Op, Wipe(o) PROVE ClaimHeld'
  BY <1>a, <1>4 DEF ClaimHeld, Removing, Wipe, account, ghosts, Go
<1>5. ASSUME NEW o \in Op, Handoff(o) PROVE ClaimHeld'
  BY <1>a, <1>5 DEF ClaimHeld, Removing, Handoff, account, Go
<1>6. ASSUME NEW o \in Op, Commit(o) PROVE ClaimHeld'
  <2> SUFFICES ASSUME ~doubled PROVE ClaimHeld'
    BY <1>6 DEF Commit, ClaimHeld, ghosts
  <2>1. ASSUME NEW p \in Op, Removing(p)' PROVE p # o /\ ops'[p] = ops[p] /\ Removing(p)
    BY <1>b, <1>6, <2>1 DEF Commit, Go, Removing, TypeOK
  <2>2. ASSUME NEW p \in Op, Removing(p)', user' # user PROVE FALSE
    <3>1. user.status = "removing" /\ ops[o].kind # "maintain"
      BY <1>a, <1>6, <2>1, <2>2 DEF ClaimHeld, Removing, Commit
    <3>2. ops[o].at = "commit" /\ ops[o].revision = user.revision
      BY <1>6, <2>2 DEF Commit, SetStatus
    <3>3. ops[o].kind \in Request \ {"register"}
      BY <1>b, <1>d, <1>6, <2>2, <3>1, <3>2 DEF StepsOfKinds, Commit, TypeOK
    <3>4. QED
      BY <1>c, <3>1, <3>2, <3>3 DEF RowsRead, Allowed, Request
  <2>3. QED
    BY <1>a, <2>1, <2>2 DEF ClaimHeld
<1>7. ASSUME NEW o \in Op, Refused(o) PROVE ClaimHeld'
  BY <1>a, <1>7 DEF ClaimHeld, Removing, Refused, account, ghosts, Go
<1>8. ASSUME NEW o \in Op, Unmark(o) PROVE ClaimHeld'
  BY <1>a, <1>8 DEF ClaimHeld, Removing, Unmark, Go
<1>9. ASSUME NEW o \in Op, End(o) PROVE ClaimHeld'
  BY <1>a, <1>9 DEF ClaimHeld, Removing, End, account, ghosts, Idle
<1>10. ASSUME NEW o \in Op, Fault(o) PROVE ClaimHeld'
  BY <1>a, <1>10 DEF ClaimHeld, Removing, Fault, account, ghosts, Idle
<1>11. ASSUME NEW o \in Op, MaintenanceBegin(o) PROVE ClaimHeld'
  <2> SUFFICES ASSUME ~doubled' PROVE ClaimHeld'
    BY DEF ClaimHeld
  <2>1. ~doubled /\ (user.status = "removing" => \A p \in Op : ops[p].kind # "maintain")
    BY <1>11, Zenon DEF MaintenanceBegin
  <2>2. ASSUME NEW p \in Op, Removing(p)' PROVE p = o \/ Removing(p)
    BY <1>b, <1>11, <2>2 DEF MaintenanceBegin, Removing, TypeOK
  <2>3. Removing(o)' => /\ user.status = "removing" /\ ops'[o].revision = user.revision
                        /\ \A p \in Op : ~Removing(p)
    BY <1>b, <1>11, <2>1 DEF MaintenanceBegin, Removing, TypeOK
  <2>4. \A p \in Op : Removing(p) => p # o /\ ops'[p] = ops[p]
    BY <1>b, <1>11 DEF MaintenanceBegin, Removing, TypeOK, Idle
  <2>5. QED
    BY <1>a, <1>11, <2>1, <2>2, <2>3, <2>4 DEF MaintenanceBegin, ClaimHeld, account
<1>12. ASSUME NEW o \in Op, NEW k \in Request, Begin(o, k) PROVE ClaimHeld'
  BY <1>a, <1>12 DEF ClaimHeld, Removing, Begin, account, ghosts, Request
<1>13. CASE TimePasses
  BY <1>a, <1>13 DEF ClaimHeld, Removing, TimePasses, ghosts
<1>14. CASE WatchdogTick \/ TickRotate \/ TickDies
  BY <1>a, <1>b, <1>14, WatchFrame DEF ClaimHeld, Removing
<1>15. CASE AgentStart
  BY <1>a, <1>15 DEF ClaimHeld, Removing, AgentStart, account, ghosts
<1>16. CASE AgentReady
  BY <1>a, <1>16 DEF ClaimHeld, Removing, AgentReady, account
<1>17. CASE AgentDies
  BY <1>a, <1>17 DEF ClaimHeld, Removing, AgentDies, account, ghosts
<1>18. QED
  BY <1>a, <1>1, <1>2, <1>3, <1>4, <1>5, <1>6, <1>7, <1>8, <1>9, <1>10, <1>11, <1>12, <1>13,
     <1>14, <1>15, <1>16, <1>17
  DEF ClaimHeld, Removing, Next, OpStep, vars, account, host, ghosts

(* Behind the marker no Agent gets ready and no recovery opens the files, unless
   it slipped. *)
LEMMA RemovalStep ==
    ASSUME AdminInv, [Next]_vars, TypeOK'
    PROVE  RemovalTakesHold'
<1>a. RemovalTakesHold
  BY DEF AdminInv
<1>b. TypeOK
  BY DEF AdminInv
<1>c. ClaimHeld
  BY DEF AdminInv
<1>d. MarkerStays
  BY DEF AdminInv
<1>e. RowsRead
  BY DEF AdminInv
<1>f. StepsOfKinds
  BY DEF AdminInv
<1>1. ASSUME NEW o \in Op, Claim(o) PROVE RemovalTakesHold'
  BY <1>a, <1>1 DEF RemovalTakesHold, Removing, Claim, host, ghosts
<1>2. ASSUME NEW o \in Op, Mark(o) PROVE RemovalTakesHold'
  BY <1>a, <1>2 DEF RemovalTakesHold, Removing, Mark, host, ghosts, Go
<1>3. ASSUME NEW o \in Op, StopAgent(o) PROVE RemovalTakesHold'
  BY <1>a, <1>3 DEF RemovalTakesHold, Removing, StopAgent, NoAgent, ghosts, Go, AfterStop
<1>4. ASSUME NEW o \in Op, Wipe(o) PROVE RemovalTakesHold'
  BY <1>a, <1>4 DEF RemovalTakesHold, Removing, Wipe, ghosts, Go
<1>5. ASSUME NEW o \in Op, Handoff(o) PROVE RemovalTakesHold'
  BY <1>c, <1>d, <1>e, <1>f, <1>5
  DEF RemovalTakesHold, Removing, TypeOK, ClaimHeld, MarkerStays, Marked, Shutting,
      RowsRead, StepsOfKinds, Handoff, Conflict, account, Go, Allowed
<1>6. ASSUME NEW o \in Op, Commit(o) PROVE RemovalTakesHold'
  BY <1>a, <1>6 DEF RemovalTakesHold, Removing, TypeOK, Commit, host, ghosts, Go
<1>7. ASSUME NEW o \in Op, Refused(o) PROVE RemovalTakesHold'
  BY <1>a, <1>7 DEF RemovalTakesHold, Removing, Refused, host, ghosts, Go
<1>8. ASSUME NEW o \in Op, Unmark(o) PROVE RemovalTakesHold'
  BY <1>a, <1>b, <1>8 DEF RemovalTakesHold, Removing, TypeOK, Unmark, host, Go
<1>9. ASSUME NEW o \in Op, End(o) PROVE RemovalTakesHold'
  BY <1>a, <1>9 DEF RemovalTakesHold, Removing, End, host, ghosts, Idle
<1>10. ASSUME NEW o \in Op, Fault(o) PROVE RemovalTakesHold'
  BY <1>a, <1>10 DEF RemovalTakesHold, Removing, Fault, host, ghosts, Idle
<1>11. ASSUME NEW o \in Op, MaintenanceBegin(o) PROVE RemovalTakesHold'
  BY <1>a, <1>11 DEF RemovalTakesHold, Removing, TypeOK, MaintenanceBegin, host
<1>12. ASSUME NEW o \in Op, NEW k \in Request, Begin(o, k) PROVE RemovalTakesHold'
  BY <1>a, <1>12 DEF RemovalTakesHold, Removing, Begin, host, ghosts, Request
<1>13. CASE TimePasses
  BY <1>a, <1>13 DEF RemovalTakesHold, Removing, TimePasses, host, ghosts
<1>14. CASE WatchdogTick \/ TickRotate \/ TickDies
  BY <1>a, <1>b, <1>14, WatchFrame DEF RemovalTakesHold, Removing, NoAgent
<1>15. CASE AgentStart
  BY <1>a, <1>15 DEF RemovalTakesHold, Removing, AgentStart, ghosts
<1>16. CASE AgentReady
  BY <1>d, <1>16 DEF RemovalTakesHold, Removing, MarkerStays, Marked, Shutting, AgentReady
<1>17. CASE AgentDies
  BY <1>a, <1>17 DEF RemovalTakesHold, Removing, AgentDies, NoAgent, ghosts
<1>18. QED
  BY <1>a, <1>1, <1>2, <1>3, <1>4, <1>5, <1>6, <1>7, <1>8, <1>9, <1>10, <1>11, <1>12, <1>13,
     <1>14, <1>15, <1>16, <1>17
  DEF RemovalTakesHold, Removing, Next, OpStep, vars, account, host, ghosts

(* What the removal left behind is what the removed user has. *)
LEMMA GoneStep ==
    ASSUME AdminInv, [Next]_vars, TypeOK'
    PROVE  RemovedIsGone'
<1>a. RemovedIsGone
  BY DEF AdminInv
<1>b. TypeOK
  BY DEF AdminInv
<1>c. RemovalTakesHold
  BY DEF AdminInv
<1>e. ShutOutWhenNotEnabled
  BY DEF AdminInv
<1>f. RowsRead
  BY DEF AdminInv
<1>g. StepsOfKinds
  BY DEF AdminInv
<1>1. ASSUME NEW o \in Op, Claim(o) PROVE RemovedIsGone'
  BY <1>1 DEF RemovedIsGone, Claim, SetStatus
<1>2. ASSUME NEW o \in Op, Mark(o) PROVE RemovedIsGone'
  BY <1>a, <1>2 DEF RemovedIsGone, Mark, host, ghosts
<1>3. ASSUME NEW o \in Op, StopAgent(o) PROVE RemovedIsGone'
  BY <1>a, <1>3 DEF RemovedIsGone, StopAgent, account, ghosts
<1>4. ASSUME NEW o \in Op, Wipe(o) PROVE RemovedIsGone'
  BY <1>a, <1>4 DEF RemovedIsGone, Wipe, account, ghosts
<1>5. ASSUME NEW o \in Op, Handoff(o) PROVE RemovedIsGone'
  BY <1>f, <1>g, <1>5
  DEF RemovedIsGone, RowsRead, StepsOfKinds, Handoff, Conflict, account, Request, Allowed
<1>6. ASSUME NEW o \in Op, Commit(o) PROVE RemovedIsGone'
  <2>1. CASE UNCHANGED user
    BY <1>a, <1>6, <2>1 DEF Commit, RemovedIsGone, host, ghosts
  <2>2. CASE user' # user
    <3>1. ops[o].at = "commit" /\ user'.status = Target(ops[o].kind)
      BY <1>6, <2>2 DEF Commit, SetStatus
    <3>2. ops[o].kind = "maintain" \/ Target(ops[o].kind) # "removed"
      BY <1>b, <1>g, <3>1 DEF StepsOfKinds, Target, TypeOK, Request
    <3>3. QED
      BY <1>a, <1>c, <1>6, <3>1, <3>2
      DEF Commit, RemovedIsGone, RemovalTakesHold, Removing, host, ghosts
  <2>3. QED
    BY <2>1, <2>2
<1>7. ASSUME NEW o \in Op, Refused(o) PROVE RemovedIsGone'
  BY <1>a, <1>7 DEF RemovedIsGone, Refused, account, host, ghosts
<1>8. ASSUME NEW o \in Op, Unmark(o) PROVE RemovedIsGone'
  BY <1>a, <1>8 DEF RemovedIsGone, Unmark, host
<1>9. ASSUME NEW o \in Op, End(o) PROVE RemovedIsGone'
  BY <1>a, <1>9 DEF RemovedIsGone, End, account, host, ghosts
<1>10. ASSUME NEW o \in Op, Fault(o) PROVE RemovedIsGone'
  BY <1>a, <1>10 DEF RemovedIsGone, Fault, account, host, ghosts
<1>11. ASSUME NEW o \in Op, MaintenanceBegin(o) PROVE RemovedIsGone'
  BY <1>11 DEF RemovedIsGone, MaintenanceBegin, Due, account
<1>12. ASSUME NEW o \in Op, NEW k \in Request, Begin(o, k) PROVE RemovedIsGone'
  BY <1>a, <1>12 DEF RemovedIsGone, Begin, account, host, ghosts
<1>13. CASE TimePasses
  BY <1>13 DEF RemovedIsGone, TimePasses
<1>14. CASE WatchdogTick \/ TickRotate \/ TickDies
  BY <1>a, <1>b, <1>14, WatchFrame DEF RemovedIsGone, NoAgent
<1>15. CASE AgentStart
  BY <1>a, <1>15 DEF RemovedIsGone, AgentStart, account, ghosts
<1>16. CASE AgentReady
  BY <1>e, <1>16 DEF RemovedIsGone, ShutOutWhenNotEnabled, AgentReady, account
<1>17. CASE AgentDies
  BY <1>a, <1>17 DEF RemovedIsGone, AgentDies, NoAgent, account, ghosts
<1>18. QED
  BY <1>a, <1>1, <1>2, <1>3, <1>4, <1>5, <1>6, <1>7, <1>8, <1>9, <1>10, <1>11, <1>12, <1>13,
     <1>14, <1>15, <1>16, <1>17
  DEF RemovedIsGone, Next, OpStep, vars, account, host, ghosts

-----------------------------------------------------------------------------
(***************************************************************************)
(* The invariant and what follows from it                                  *)
(***************************************************************************)
(* A user who is not registered has no marker to need and no operation. *)
LEMMA AdminInit == Init => AdminInv
<1> SUFFICES ASSUME Init PROVE AdminInv
  OBVIOUS
<1>1. /\ user = [status |-> "unregistered", revision |-> 0, due |-> FALSE]
      /\ \A o \in Op : ops[o] = Idle
      /\ agent = NoAgent
  BY DEF Init
<1>2. marker \in BOOLEAN /\ session \in BOOLEAN /\ watchdog \in BOOLEAN /\ data \in BOOLEAN
  BY Zenon DEF Init
<1>3. crossed \in BOOLEAN /\ doubled \in BOOLEAN /\ slipped \in BOOLEAN
  BY Zenon DEF Init
<1>4. TypeOK
  BY <1>1, <1>2, <1>3 DEF Init, TypeOK, Idle, NoAgent, Status
<1>5. StepsOfKinds /\ RowsRead /\ MarkerStays /\ ClaimHeld /\ RemovalTakesHold
  BY <1>1
  DEF Idle, StepsOfKinds, RowsRead, MarkerStays, Marked, ClaimHeld, Removing,
      RemovalTakesHold
<1>6. ShutOutWhenNotEnabled /\ RemovedIsGone
  BY <1>1 DEF ShutOutWhenNotEnabled, RemovedIsGone
<1>7. QED
  BY <1>4, <1>5, <1>6 DEF AdminInv

LEMMA AdminStep == AdminInv /\ [Next]_vars => AdminInv'
<1> SUFFICES ASSUME AdminInv, [Next]_vars PROVE AdminInv'
  OBVIOUS
<1>1. TypeOK'
  BY TypeStep
<1>2. StepsOfKinds' /\ RowsRead' /\ MarkerStays' /\ ClaimHeld'
  BY <1>1, KindsStep, RowsStep, MarkerStep, ClaimStep
<1>3. RemovalTakesHold' /\ ShutOutWhenNotEnabled' /\ RemovedIsGone'
  BY <1>1, RemovalStep, ShutOutStep, GoneStep
<1>4. QED
  BY <1>1, <1>2, <1>3 DEF AdminInv

(* The inductive invariant, whichever processes run beside each other and wherever
   each of them dies. *)
THEOREM AdminInvariant == Spec => []AdminInv
<1>1. QED
  BY AdminInit, AdminStep, PTL DEF Spec

(* Only a maintenance run that holds its claim deletes files. *)
LEMMA WipeStep == AdminInv /\ [Next]_vars => [WipedUnderClaim]_vars
<1> SUFFICES ASSUME AdminInv, [Next]_vars, data, ~data'
             PROVE  user.status = "removing" \/ doubled
  BY DEF WipedUnderClaim
<1>1. StepsOfKinds /\ ClaimHeld
  BY DEF AdminInv
<1>a. TypeOK /\ (WatchdogTick \/ TickRotate \/ TickDies => UNCHANGED data)
  BY WatchFrame DEF AdminInv
<1>2. \E o \in Op : Wipe(o)
  BY <1>a DEF Next, OpStep, vars, account, host, ghosts, Claim, Mark, StopAgent, Handoff, Commit,
         Refused, Unmark, End, Fault, MaintenanceBegin, Begin, TimePasses,
         AgentStart, AgentReady, AgentDies
<1>3. PICK o \in Op : ops[o].at = "wipe"
  BY <1>2 DEF Wipe
<1>4. QED
  BY <1>1, <1>3 DEF StepsOfKinds, ClaimHeld, Removing

(* AdminService, the maintenance and the watchdog: a user who is not enabled is shut
   out, one who is removed has neither files nor a running Agent, and files are
   deleted only under a claim, with a process dying between any two steps. *)
THEOREM AccessIsSafe == Spec => AccessSafety
<1>1. AdminInv => ShutOutWhenNotEnabled /\ RemovedIsGone
  BY DEF AdminInv
<1>2. AdminInv /\ [Next]_vars => [WipedUnderClaim]_vars
  BY WipeStep
<1>3. QED
  BY <1>1, <1>2, AdminInvariant, PTL DEF Spec, AccessSafety

-----------------------------------------------------------------------------
USE RuntimeAssumption, NobodyAssumption
USE DEF GateHolders, Outside, Clearing, Spawning, Starts, Goto, Stay

-----------------------------------------------------------------------------
(***************************************************************************)
(* The supervisors                                                         *)
(***************************************************************************)
(* The end of one process leaves the others as they are. *)
LEMMA EndsOne ==
    ASSUME Supervised, NEW n \in Starts, Ends(n)
    PROVE  /\ status' \in [Starts -> {"none", "starting", "serving", "hung", "dead"}]
           /\ \A m \in Nat : Alive(m)' <=> Alive(m) /\ m # n
BY DEF Supervised, RuntimeShapes, Ends, Alive

(* A step that starts no process, and touches the files of no call that is under way. *)
LEMMA NothingStarts ==
    ASSUME Supervised, RuntimeShapes',
           UNCHANGED <<record, reservation>>, boots' = boots,
           \A n \in Nat : Alive(n)' => Alive(n),
           \A s \in Supervisor :
             /\ pc'[s] \notin Outside => UNCHANGED <<pc[s], seen[s], nonce[s], call[s]>>
             /\ pc'[s] \notin Outside => lock' = lock
             /\ pc'[s] \in {"idle", "returned"} => call'[s] = "ensure"
    PROVE  Supervised'
<1>1. ServersKnown'
  BY DEF Supervised, ServersKnown
<1>2. ASSUME NEW s \in Supervisor PROVE Informed(s)'
  <2>1. CASE pc'[s] \in Outside
    BY <2>1 DEF RuntimeShapes, Informed
  <2>2. CASE pc'[s] \notin Outside
    <3>1. Informed(s)
      BY DEF Supervised
    <3>2. /\ pc'[s] = pc[s] /\ seen'[s] = seen[s] /\ nonce'[s] = nonce[s] /\ call'[s] = call[s]
          /\ lock' = lock /\ record \in Nat /\ boots' = boots /\ record' = record
          /\ reservation' = reservation
      BY <2>2 DEF Supervised, RuntimeShapes
    <3>3. QED
      BY <2>2, <3>1, <3>2 DEF Informed
  <2>3. QED
    BY <2>1, <2>2
<1>3. QED
  BY <1>1, <1>2 DEF Supervised

(* Whoever is inside has the lock, and the other one waits outside. *)
LEMMA OneInside ==
    ASSUME Supervised, NEW s \in Supervisor, pc[s] \notin Outside, NEW t \in Supervisor \ {s}
    PROVE  lock = s /\ pc[t] \in Outside
BY DEF Supervised, Informed

(* A step of the supervisor that is inside. *)
LEMMA InsideStep ==
    ASSUME Supervised, RuntimeShapes', ServersKnown', NEW s \in Supervisor,
           pc[s] \notin Outside, Informed(s)',
           \A t \in Supervisor \ {s} : pc'[t] = pc[t] /\ call'[t] = call[t]
    PROVE  Supervised'
<1>1. ASSUME NEW t \in Supervisor \ {s} PROVE Informed(t)'
  <2>1. pc'[t] \in Outside /\ Informed(t)
    BY OneInside DEF Supervised
  <2>2. pc'[t] = pc[t] /\ call'[t] = call[t]
    OBVIOUS
  <2>3. QED
    BY <2>1, <2>2 DEF Informed
<1>2. QED
  BY <1>1 DEF Supervised

-----------------------------------------------------------------------------
LEMMA ShapesStep == RuntimeShapes /\ [RuntimeNext]_runtimeVars => RuntimeShapes'
<1> SUFFICES ASSUME RuntimeShapes, [RuntimeNext]_runtimeVars PROVE RuntimeShapes'
  OBVIOUS
<1> USE DEF RuntimeShapes, Places, supervisorVars, files, processes, bounds, work, setup, NoReservation
<1>1. ASSUME NEW n \in Starts, Ends(n)
      PROVE  status' \in [Starts -> {"none", "starting", "serving", "hung", "dead"}]
  BY <1>1 DEF Ends
<1>2. ASSUME NEW s \in Supervisor, NEW r, Return(s, r)
      PROVE  /\ pc' \in [Supervisor -> Places] /\ call' \in [Supervisor -> {"ensure", "restart"}]
             /\ seen' \in [Supervisor -> Nat] /\ nonce' \in [Supervisor -> Nat]
  BY <1>2 DEF Return
<1>3. ASSUME NEW s \in Supervisor, SupervisorStep(s) PROVE RuntimeShapes'
  <2>1. CASE AcquireSupervisorLock(s)
    BY <2>1 DEF AcquireSupervisorLock
  <2>2. CASE ProbeFirst(s)
    BY <1>2, <2>2 DEF ProbeFirst
  <2>3. CASE ReadRecord(s)
    <3>1. CASE Return(s, "failed")
      <4>1. /\ pc' \in [Supervisor -> Places] /\ call' \in [Supervisor -> {"ensure", "restart"}]
            /\ seen' \in [Supervisor -> Nat] /\ nonce' \in [Supervisor -> Nat]
        BY <1>2, <3>1
      <4>2. UNCHANGED <<record, status, starts, boots>> /\ reservation' \in {reservation, NoReservation}
        BY <2>3, <3>1 DEF ReadRecord
      <4>3. QED
        BY <4>1, <4>2, SMTT(30)
    <3>2. CASE ~Return(s, "failed")
      <4>1. /\ pc' = [pc EXCEPT ![s] = "reclaim"] /\ seen' = [seen EXCEPT ![s] = record]
            /\ UNCHANGED <<call, nonce, record, reservation, status, starts, boots>>
        BY <2>3, <3>2 DEF ReadRecord
      <4>2. QED
        BY <4>1
    <3>3. QED
      BY <3>1, <3>2
  <2>4. CASE ReclaimOrRejectStartupReservation(s)
    <3>1. CASE Return(s, "failed")
      <4>1. /\ pc' \in [Supervisor -> Places] /\ call' \in [Supervisor -> {"ensure", "restart"}]
            /\ seen' \in [Supervisor -> Nat] /\ nonce' \in [Supervisor -> Nat]
        BY <1>2, <3>1
      <4>2. UNCHANGED <<record, status, starts, boots>> /\ reservation' \in {reservation, NoReservation}
        BY <2>4, <3>1 DEF ReclaimOrRejectStartupReservation
      <4>3. QED
        BY <4>1, <4>2, SMTT(30)
    <3>2. CASE ~Return(s, "failed")
      <4>1. /\ pc' = [pc EXCEPT ![s] = "rmRecord"] /\ UNCHANGED <<call, seen, nonce>>
            /\ UNCHANGED <<record, status, starts, boots>> /\ reservation' \in {reservation, NoReservation}
        BY <2>4, <3>2 DEF ReclaimOrRejectStartupReservation
      <4>2. QED
        BY <4>1
    <3>3. QED
      BY <3>1, <3>2
  <2>5. CASE RemoveRecord(s)
    BY <2>5 DEF RemoveRecord
  <2>6. CASE RemoveSocket(s)
    BY <2>6 DEF RemoveSocket
  <2>7. CASE PublishStartupReservation(s)
    BY <2>7 DEF PublishStartupReservation
  <2>8. CASE OutOfStarts(s)
    BY <1>2, <2>8 DEF OutOfStarts
  <2>9. CASE Spawn(s)
    BY <2>9 DEF Spawn
  <2>10. CASE PublishOwner(s)
    BY <2>10, SMTT(30) DEF PublishOwner
  <2>11. CASE WaitUntilReady(s)
    <3>1. CASE Return(s, "ok")
      <4>1. /\ pc' \in [Supervisor -> Places] /\ call' \in [Supervisor -> {"ensure", "restart"}]
            /\ seen' \in [Supervisor -> Nat] /\ nonce' \in [Supervisor -> Nat]
        BY <1>2, <3>1
      <4>2. UNCHANGED <<record, status, starts, boots>> /\ reservation' \in {reservation, NoReservation}
        BY <2>11, <3>1 DEF WaitUntilReady, RemoveOwned
      <4>3. QED
        BY <4>1, <4>2, SMTT(30)
    <3>2. CASE ~Return(s, "ok")
      BY <2>11, <3>2 DEF WaitUntilReady, RemoveOwned
    <3>3. QED
      BY <3>1, <3>2
  <2>12. CASE StopSpawnedChild(s)
    BY <1>1, <2>12 DEF StopSpawnedChild, Alive
  <2>13. CASE CleanupSpawnedChild(s)
    BY <1>2, <2>13, SMTT(30) DEF CleanupSpawnedChild, RemoveOwned
  <2>14. CASE RestartAppServer(s)
    <3>1. CASE Return(s, "failed")
      <4>1. /\ pc' \in [Supervisor -> Places] /\ call' \in [Supervisor -> {"ensure", "restart"}]
            /\ seen' \in [Supervisor -> Nat] /\ nonce' \in [Supervisor -> Nat]
        BY <1>2, <3>1
      <4>2. UNCHANGED <<record, status, starts, boots>> /\ reservation' \in {reservation, NoReservation}
        BY <2>14, <3>1 DEF RestartAppServer
      <4>3. QED
        BY <4>1, <4>2, SMTT(30)
    <3>2. CASE ~Return(s, "failed")
      <4>1. /\ (pc' = [pc EXCEPT ![s] = "term"] \/ pc' = [pc EXCEPT ![s] = "reclaim"])
            /\ seen' = [seen EXCEPT ![s] = record] /\ UNCHANGED <<call, nonce>>
            /\ UNCHANGED <<record, status, starts, boots>> /\ reservation' \in {reservation, NoReservation}
        BY <2>14, <3>2 DEF RestartAppServer
      <4>2. QED
        <5>1. pc' \in [Supervisor -> Places]
          BY <4>1
        <5>2. seen' \in [Supervisor -> Nat]
          BY <4>1
        <5>3. QED
          BY <4>1, <5>1, <5>2, SMTT(30)
    <3>3. QED
      BY <3>1, <3>2
  <2>15. CASE SignalTerm(s)
    <3>1. status' \in [Starts -> {"none", "starting", "serving", "hung", "dead"}]
      BY <1>1, <2>15 DEF SignalTerm, Signal, Alive
    <3>2. pc' = [pc EXCEPT ![s] = "reclaim"] \/ pc' = [pc EXCEPT ![s] = "kill"]
      BY <2>15 DEF SignalTerm
    <3>3. UNCHANGED <<call, seen, nonce, record, reservation, starts, boots>>
      BY <2>15 DEF SignalTerm, Signal
    <3>4. QED
      BY <3>1, <3>2, <3>3
  <2>16. CASE SignalKill(s)
    BY <1>1, <2>16 DEF SignalKill, Signal, Alive
  <2>17. CASE RefuseKill(s)
    BY <1>2, <2>17 DEF RefuseKill
  <2>18. QED
    BY <1>3, <2>1, <2>2, <2>3, <2>4, <2>5, <2>6, <2>7, <2>8, <2>9, <2>10, <2>11, <2>12, <2>13,
       <2>14, <2>15, <2>16, <2>17 DEF SupervisorStep
<1>4. ASSUME NEW set \in SUBSET Supervisor, Stops(set)
      PROVE  /\ pc' \in [Supervisor -> Places] /\ call' \in [Supervisor -> {"ensure", "restart"}]
             /\ seen' \in [Supervisor -> Nat] /\ nonce' \in [Supervisor -> Nat]
  BY <1>4 DEF Stops
<1>5. ASSUME NEW s \in Supervisor, SupervisorCrashes(s) PROVE RuntimeShapes'
  BY <1>4, <1>5 DEF SupervisorCrashes
<1>6. CASE Reboot
  BY <1>4, <1>6 DEF Reboot
<1>7. ASSUME NEW n \in Starts, Serves(n) \/ Hangs(n) \/ Dies(n) PROVE RuntimeShapes'
  BY <1>1, <1>7 DEF Serves, Hangs, Dies
<1>a. ASSUME NEW op, NEW c \in {"ensure", "restart"}, AskSupervisor(op, c) \/ Answered(op)
      PROVE  /\ pc' \in [Supervisor -> Places] /\ call' \in [Supervisor -> {"ensure", "restart"}]
             /\ seen' = seen /\ nonce' = nonce
  BY <1>a, ZenonT(40) DEF AskSupervisor, Answered, Call
<1>8. CASE InstallStep
  <2>1. CASE WriteInstalling \/ Npm \/ WriteRestartRequired \/ InstallAcquires
    BY <2>1 DEF WriteInstalling, Npm, WriteRestartRequired, InstallAcquires, Others
  <2>2. CASE InstallChecks
    BY <1>a, <2>2 DEF InstallChecks, Others
  <2>3. CASE InstallEnds
    BY <1>a, <2>3 DEF InstallEnds, Others
  <2>4. QED
    BY <1>8, <2>1, <2>2, <2>3 DEF InstallStep
<1>9. CASE RestartStep
  BY <1>a, <1>9 DEF RestartStep, RestartChecks, RestartDone, ReadSwitch, ClearSwitch, Others
<1>10. CASE LoginEnsured \/ ServerStep \/ CompleteLogin \/ ExpireLogin \/ CancelLogin
  <2>1. CASE LoginEnsured
    BY <1>a, <2>1 DEF LoginEnsured
  <2>2. CASE ServerStep
    BY <2>2 DEF ServerStep, TurnAnswered, LoginStarted, CancelAnswered
  <2>3. CASE CompleteLogin \/ ExpireLogin \/ CancelLogin
    BY <2>3 DEF CompleteLogin, ExpireLogin, CancelLogin, Others
  <2>4. QED
    BY <1>10, <2>1, <2>2, <2>3
<1>11. CASE CliCalls \/ LeaseConnects \/ AskTurn \/ TaskEnds
  <2>1. CASE CliCalls
    <3>1. Call("cli", "ensure") \/ Call("cli", "restart")
      BY <2>1 DEF CliCalls
    <3>2. pc' \in [Supervisor -> Places] /\ call' \in [Supervisor -> {"ensure", "restart"}]
      BY <3>1 DEF Call
    <3>3. seen' \in [Supervisor -> Nat]
      BY <2>1 DEF CliCalls
    <3>4. UNCHANGED <<nonce, record, reservation, status, starts, boots>>
      BY <2>1 DEF CliCalls
    <3>5. QED
      BY <3>2, <3>3, <3>4
  <2>2. CASE LeaseConnects
    BY <2>2 DEF LeaseConnects, Call
  <2>3. CASE AskTurn \/ TaskEnds
    BY <2>3 DEF AskTurn, TaskEnds
  <2>4. QED
    BY <1>11, <2>1, <2>2, <2>3
<1>12. CASE StartInstall \/ StartRestart \/ StartLogin
  BY <1>12 DEF StartInstall, StartRestart, StartLogin, AskSupervisor, Call
<1>13. CASE UNCHANGED runtimeVars
  BY <1>13 DEF runtimeVars
<1>14. QED
  BY <1>3, <1>5, <1>6, <1>7, <1>8, <1>9, <1>10, <1>11, <1>12, <1>13 DEF RuntimeNext

-----------------------------------------------------------------------------
(* A call that returns leaves its supervisor outside, and what it leaves of the
   reservation still tells of a process without a record. *)
LEMMA ReturnKeeps ==
    ASSUME Supervised, RuntimeShapes', NEW s \in Supervisor, pc[s] \notin Outside,
           NEW r, Return(s, r), UNCHANGED <<status, boots>>,
           \A n \in Starts : Alive(n) => record' = n \/ (record' = record /\ reservation' = reservation)
    PROVE  Supervised'
<1>1. /\ pc'[s] \in Outside /\ call'[s] = "ensure"
      /\ \A t \in Supervisor \ {s} : pc'[t] = pc[t] /\ call'[t] = call[t]
  BY DEF Return, Supervised, RuntimeShapes
<1>2. Informed(s)'
  BY <1>1 DEF Informed
<1>3. \A n \in Nat : Alive(n)' <=> Alive(n)
  BY DEF Alive
<1>4. ServersKnown'
  BY <1>3 DEF ServersKnown, Supervised
<1>5. QED
  BY <1>1, <1>2, <1>4, InsideStep

LEMMA InsideKeeps ==
    ASSUME Supervised, RuntimeShapes', NEW s \in Supervisor, SupervisorStep(s)
    PROVE  Supervised'
<1> USE DEF supervisorVars, files, processes, bounds, work, setup, NoReservation
<1>1. CASE AcquireSupervisorLock(s)
  <2>1. ServersKnown' /\ \A n \in Nat : Alive(n)' <=> Alive(n)
    BY <1>1 DEF AcquireSupervisorLock, Supervised, ServersKnown, Alive
  <2>2. \A t \in Supervisor \ {s} : pc[t] \in Outside /\ pc'[t] = pc[t]
    BY <1>1 DEF AcquireSupervisorLock, LockFree, Supervised, RuntimeShapes, Informed
  <2>3. Informed(s)'
    BY <1>1 DEF AcquireSupervisorLock, Supervised, RuntimeShapes, Informed
  <2>4. ASSUME NEW t \in Supervisor \ {s} PROVE Informed(t)'
    BY <1>1, <2>2 DEF AcquireSupervisorLock, Supervised, Informed
  <2>5. QED
    BY <2>1, <2>3, <2>4 DEF Supervised
<1>a. ASSUME pc[s] \notin Outside, UNCHANGED <<status, boots>>, ServersKnown', Informed(s)',
             \A t \in Supervisor \ {s} : pc'[t] = pc[t], \A t \in Supervisor \ {s} : call'[t] = call[t]
      PROVE  Supervised'
  BY <1>a, InsideStep
<1>2. CASE ProbeFirst(s)
  <2>1. CASE Return(s, "ok")
    BY <1>2, <2>1, ReturnKeeps DEF ProbeFirst
  <2>2. CASE ~Return(s, "ok")
    <3>1. /\ pc' = [pc EXCEPT ![s] = "record"]
          /\ UNCHANGED <<call, lock, record, reservation, status, boots>> /\ pc[s] = "probe"
      BY <1>2, <2>2 DEF ProbeFirst
    <3>2. ServersKnown'
      BY <3>1 DEF Supervised, ServersKnown, Alive
    <3>3. Informed(s)'
      BY <3>1 DEF Supervised, RuntimeShapes, Informed
    <3>4. QED
      BY <1>a, <3>1, <3>2, <3>3 DEF Supervised, RuntimeShapes
  <2>3. QED
    BY <2>1, <2>2
<1>3. CASE ReadRecord(s)
  <2>1. CASE Alive(record)
    <3>1. /\ Return(s, "failed") /\ UNCHANGED <<status, boots, record>> /\ pc[s] = "record"
      BY <1>3, <2>1 DEF ReadRecord
    <3>2. \A n \in Starts : Alive(n) => record' = n
      BY <2>1, <3>1 DEF Supervised, ServersKnown, Alive
    <3>3. QED
      BY <3>1, <3>2, ReturnKeeps
  <2>2. CASE ~Alive(record)
    <3>1. /\ pc' = [pc EXCEPT ![s] = "reclaim"] /\ seen' = [seen EXCEPT ![s] = record]
          /\ UNCHANGED <<call, lock, record, reservation, status, boots>> /\ pc[s] = "record"
      BY <1>3, <2>2 DEF ReadRecord
    <3>2. ServersKnown'
      BY <3>1 DEF Supervised, ServersKnown, Alive
    <3>3. Informed(s)'
      BY <2>2, <3>1, ZenonT(40) DEF Supervised, RuntimeShapes, Informed, Alive
    <3>4. QED
      BY <1>a, <3>1, <3>2, <3>3 DEF Supervised, RuntimeShapes
  <2>3. QED
    BY <2>1, <2>2
<1>4. CASE ReclaimOrRejectStartupReservation(s)
  <2>1. CASE Return(s, "failed") /\ UNCHANGED reservation
    BY <1>4, <2>1, ReturnKeeps DEF ReclaimOrRejectStartupReservation
  <2>2. CASE ~(Return(s, "failed") /\ UNCHANGED reservation)
    <3>1. /\ pc' = [pc EXCEPT ![s] = "rmRecord"] /\ (reservation = NoReservation \/ Reclaimable(s))
          /\ UNCHANGED <<call, lock, record, status, boots>> /\ pc[s] = "reclaim"
      BY <1>4, <2>2 DEF ReclaimOrRejectStartupReservation
    <3>2. Informed(s) /\ ServersKnown /\ pc \in [Supervisor -> Places]
      BY DEF Supervised, RuntimeShapes
    <3>3. \A n \in Starts : ~Alive(n)
      BY <3>1, <3>2 DEF Informed, ServersKnown, Reclaimable
    <3>4. (\A n \in Starts : ~Alive(n))' /\ ServersKnown'
      BY <3>1, <3>3 DEF ServersKnown, Alive
    <3>5. Informed(s)'
      BY <3>1, <3>2, <3>4 DEF Informed
    <3>6. QED
      BY <1>a, <3>1, <3>2, <3>4, <3>5
  <2>3. QED
    BY <2>1, <2>2
<1>5. CASE RemoveRecord(s) \/ RemoveSocket(s) \/ PublishStartupReservation(s)
  <2>1. Informed(s) /\ RuntimeShapes
    BY DEF Supervised
  <2>2. /\ pc[s] \in {"rmRecord", "rmSocket", "reserve"} /\ UNCHANGED <<lock, status, boots>>
        /\ \A n \in Starts : ~Alive(n)
    BY <1>5, <2>1 DEF RemoveRecord, RemoveSocket, PublishStartupReservation, Informed
  <2>3. (\A n \in Starts : ~Alive(n))' /\ ServersKnown'
    BY <2>2 DEF ServersKnown, Alive
  <2>4. \A t \in Supervisor \ {s} : pc'[t] = pc[t] /\ call'[t] = call[t]
    BY <1>5, <2>1 DEF RemoveRecord, RemoveSocket, PublishStartupReservation, RuntimeShapes
  <2>5. Informed(s)'
    <3>1. CASE RemoveRecord(s)
      BY <2>1, <2>2, <2>3, <3>1 DEF RemoveRecord, RuntimeShapes, Informed
    <3>2. CASE RemoveSocket(s)
      BY <2>1, <2>2, <2>3, <3>2 DEF RemoveSocket, RuntimeShapes, Informed
    <3>3. CASE PublishStartupReservation(s)
      BY <2>1, <2>2, <2>3, <3>3 DEF PublishStartupReservation, RuntimeShapes, Informed
    <3>4. QED
      BY <1>5, <3>1, <3>2, <3>3
  <2>6. QED
    BY <1>a, <2>2, <2>3, <2>4, <2>5
<1>6. CASE OutOfStarts(s)
  BY <1>6, ReturnKeeps DEF OutOfStarts
<1>7. CASE RefuseKill(s)
  BY <1>7, ReturnKeeps DEF RefuseKill
<1>8. CASE Spawn(s)
  <2>1. /\ Informed(s) /\ RuntimeShapes /\ pc[s] = "spawn" /\ UNCHANGED <<lock, call, nonce, record, reservation, boots>>
        /\ \A n \in Starts : ~Alive(n)
        /\ nonce[s] \in Starts /\ record = 0 /\ reservation = [nonce |-> nonce[s], boot |-> boots]
        /\ \A t \in Supervisor \ {s} : pc'[t] = pc[t]
    BY <1>8, ZenonT(40) DEF Spawn, Supervised, Informed, RuntimeShapes
  <2>2. CASE pc' = [pc EXCEPT ![s] = "publish"]
    <3>1. status' = [status EXCEPT ![nonce[s]] = "starting"]
      BY <1>8, <2>1, <2>2 DEF Spawn, RuntimeShapes
    <3>2. \A n \in Starts : Alive(n)' <=> n = nonce[s]
      BY <2>1, <3>1 DEF Alive, RuntimeShapes
    <3>3. ServersKnown'
      BY <2>1, <3>2 DEF ServersKnown
    <3>4. Informed(s)'
      BY <2>1, <2>2, <3>2 DEF Informed, RuntimeShapes
    <3>5. QED
      BY <2>1, <3>3, <3>4, InsideStep
  <2>3. CASE pc' # [pc EXCEPT ![s] = "publish"]
    <3>1. pc' = [pc EXCEPT ![s] = "cleanup"] /\ UNCHANGED status
      BY <1>8, <2>3 DEF Spawn
    <3>2. (\A n \in Starts : ~Alive(n))' /\ ServersKnown'
      BY <2>1, <3>1 DEF ServersKnown, Alive
    <3>3. Informed(s)'
      BY <2>1, <3>1, <3>2 DEF Informed, RuntimeShapes
    <3>4. QED
      BY <1>a, <2>1, <3>1, <3>2, <3>3
  <2>4. QED
    BY <2>2, <2>3
<1>9. CASE PublishOwner(s)
  <2>1. /\ Informed(s) /\ RuntimeShapes /\ ServersKnown /\ pc[s] = "publish"
        /\ UNCHANGED <<lock, call, nonce, reservation, boots, status>>
    BY <1>9 DEF PublishOwner, Supervised
  <2>2. \/ pc' = [pc EXCEPT ![s] = "wait"] /\ record' = nonce[s]
        \/ pc' = [pc EXCEPT ![s] = "stop"] /\ record' = record
    BY <1>9 DEF PublishOwner
  <2>3. /\ nonce[s] \in Starts /\ record = 0 /\ reservation = [nonce |-> nonce[s], boot |-> boots]
        /\ \A n \in Starts : Alive(n) => n = nonce[s]
    BY <2>1 DEF Informed
  <2>4. \A n \in Starts : Alive(n)' <=> Alive(n)
    BY <2>1 DEF Alive
  <2>5. ServersKnown'
    BY <2>1, <2>3, <2>4 DEF ServersKnown
  <2>6. Informed(s)'
    BY <2>1, <2>2, <2>3, <2>4, SMTT(30) DEF Informed, RuntimeShapes
  <2>7. \A t \in Supervisor \ {s} : pc'[t] = pc[t]
    BY <2>1, <2>2 DEF RuntimeShapes
  <2>8. QED
    BY <1>a, <2>1, <2>5, <2>6, <2>7
<1>10. CASE WaitUntilReady(s)
  <2>1. /\ Informed(s) /\ RuntimeShapes /\ ServersKnown /\ pc[s] = "wait"
        /\ UNCHANGED <<record, boots, status>>
        /\ nonce[s] \in Starts /\ record = nonce[s]
        /\ \A n \in Starts : Alive(n) => n = nonce[s]
    BY <1>10 DEF WaitUntilReady, Supervised, Informed, RuntimeShapes
  <2>2. CASE Return(s, "ok")
    BY <2>1, <2>2, ReturnKeeps
  <2>3. CASE ~Return(s, "ok")
    <3>1. /\ pc' = [pc EXCEPT ![s] = "stop"] /\ UNCHANGED <<lock, call, nonce, reservation>>
      BY <1>10, <2>3 DEF WaitUntilReady
    <3>2. (\A n \in Starts : Alive(n) => n = nonce[s])' /\ ServersKnown'
      BY <2>1, <3>1 DEF ServersKnown, Alive
    <3>3. Informed(s)'
      BY <2>1, <3>1, <3>2 DEF Informed, RuntimeShapes
    <3>4. QED
      BY <1>a, <2>1, <3>1, <3>2, <3>3 DEF RuntimeShapes
  <2>4. QED
    BY <2>2, <2>3
<1>11. CASE StopSpawnedChild(s)
  <2>1. /\ Informed(s) /\ RuntimeShapes /\ ServersKnown /\ pc[s] = "stop"
        /\ UNCHANGED <<lock, call, nonce, record, reservation, boots>>
        /\ pc' = [pc EXCEPT ![s] = "cleanup"] /\ nonce[s] \in Starts
        /\ \A n \in Starts : Alive(n) => n = nonce[s]
    BY <1>11 DEF StopSpawnedChild, Supervised, Informed, RuntimeShapes
  <2>2. CASE Alive(nonce[s])
    <3>1. Ends(nonce[s])
      BY <1>11, <2>2 DEF StopSpawnedChild
    <3>2. (\A n \in Starts : ~Alive(n))'
      BY <2>1, <3>1, EndsOne
    <3>3. QED
      BY <2>1, <3>2, InsideStep, SMTT(30) DEF Informed, RuntimeShapes, ServersKnown
  <2>3. CASE ~Alive(nonce[s])
    <3>1. UNCHANGED status
      BY <1>11, <2>3 DEF StopSpawnedChild
    <3>2. (\A n \in Starts : ~Alive(n))'
      BY <2>1, <2>3, <3>1 DEF Alive
    <3>3. QED
      BY <2>1, <3>2, InsideStep, SMTT(30) DEF Informed, RuntimeShapes, ServersKnown
  <2>4. QED
    BY <2>2, <2>3
<1>12. CASE CleanupSpawnedChild(s)
  <2>1. (\A n \in Starts : ~Alive(n)) /\ pc[s] = "cleanup"
    BY <1>12 DEF CleanupSpawnedChild, Supervised, Informed
  <2>2. Return(s, "failed") /\ UNCHANGED <<status, boots>>
    BY <1>12 DEF CleanupSpawnedChild
  <2>3. QED
    BY <2>1, <2>2, ReturnKeeps
<1>13. CASE RestartAppServer(s)
  <2>1. UNCHANGED <<record, reservation, status, boots>> /\ pc[s] = "restart" /\ RuntimeShapes
        /\ Informed(s) /\ ServersKnown
    BY <1>13 DEF RestartAppServer, Supervised
  <2>2. CASE Return(s, "failed")
    BY <2>1, <2>2, ReturnKeeps
  <2>3. CASE ~Return(s, "failed")
    <3>1. /\ \/ pc' = [pc EXCEPT ![s] = "term"]
             \/ pc' = [pc EXCEPT ![s] = "reclaim"] /\ ~Alive(record)
          /\ seen' = [seen EXCEPT ![s] = record] /\ UNCHANGED <<lock, call, nonce>>
      BY <1>13, <2>3 DEF RestartAppServer
    <3>2. ServersKnown' /\ \A n \in Nat : Alive(n)' <=> Alive(n)
      BY <2>1 DEF ServersKnown, Alive
    <3>3. Informed(s)'
      BY <2>1, <3>1, <3>2 DEF Informed, RuntimeShapes
    <3>4. QED
      BY <1>a, <2>1, <3>1, <3>2, <3>3 DEF RuntimeShapes
  <2>4. QED
    BY <2>2, <2>3
<1>14. CASE SignalTerm(s) \/ SignalKill(s)
  <2>1. /\ UNCHANGED <<record, reservation, boots, lock, call, nonce, seen>> /\ RuntimeShapes
        /\ pc[s] \in {"term", "kill"} /\ seen[s] = record /\ Informed(s) /\ ServersKnown
        /\ \A t \in Supervisor \ {s} : pc'[t] = pc[t]
    BY <1>14, SMTT(30) DEF SignalTerm, SignalKill, Signal, Supervised, Informed, RuntimeShapes
  <2>2. \/ Alive(record) /\ Ends(record) /\ pc' = [pc EXCEPT ![s] = "reclaim"]
        \/ UNCHANGED status /\ pc' = [pc EXCEPT ![s] = "kill"]
        \/ UNCHANGED status /\ pc' = [pc EXCEPT ![s] = "reclaim"] /\ ~Alive(record)
    <3>1. CASE SignalTerm(s)
      BY <2>1, <3>1 DEF SignalTerm
    <3>2. CASE SignalKill(s)
      BY <2>1, <3>2 DEF SignalKill
    <3>3. QED
      BY <1>14, <3>1, <3>2
  <2>3. CASE Alive(record) /\ Ends(record) /\ pc' = [pc EXCEPT ![s] = "reclaim"]
    <3>1. record \in Starts
      BY <2>3 DEF Alive
    <3>2. \A n \in Nat : Alive(n)' <=> Alive(n) /\ n # record
      BY <2>3, <3>1, EndsOne
    <3>3. ServersKnown'
      BY <2>1, <3>2 DEF ServersKnown
    <3>4. Informed(s)'
      BY <2>1, <2>3, <3>1, <3>2 DEF Informed, RuntimeShapes
    <3>5. QED
      BY <2>1, <3>3, <3>4, InsideStep
  <2>4. CASE /\ UNCHANGED status
             /\ \/ pc' = [pc EXCEPT ![s] = "kill"]
                \/ pc' = [pc EXCEPT ![s] = "reclaim"] /\ ~Alive(record)
    <3>1. ServersKnown' /\ \A n \in Nat : Alive(n)' <=> Alive(n)
      BY <2>1, <2>4 DEF ServersKnown, Alive
    <3>2. Informed(s)'
      BY <2>1, <2>4, <3>1, SMTT(30) DEF Informed, RuntimeShapes
    <3>3. QED
      BY <1>a, <2>1, <2>4, <3>1, <3>2
  <2>5. QED
    BY <2>2, <2>3, <2>4
<1>15. QED
  BY <1>1, <1>2, <1>3, <1>4, <1>5, <1>6, <1>7, <1>8, <1>9, <1>10, <1>11, <1>12, <1>13, <1>14
  DEF SupervisorStep

-----------------------------------------------------------------------------
(***************************************************************************)
(* Every other step                                                        *)
(***************************************************************************)
OtherStep ==
    \/ \E s \in Supervisor : SupervisorCrashes(s)
    \/ InstallStep \/ RestartStep \/ LoginEnsured \/ ServerStep
    \/ CliCalls \/ LeaseConnects \/ AskTurn \/ TaskEnds
    \/ StartInstall \/ StartRestart \/ StartLogin
    \/ CompleteLogin \/ ExpireLogin \/ CancelLogin
    \/ \E n \in Starts : Serves(n) \/ Hangs(n) \/ Dies(n)
    \/ Reboot

LEMMA StepKinds ==
    RuntimeNext => OtherStep \/ \E s \in Supervisor : SupervisorStep(s)
BY DEF RuntimeNext, OtherStep

(* What a call that is under way has done and knows. *)
Progress(s) == <<pc[s], seen[s], nonce[s], call[s], lock>>

(* No other step starts a process or touches a call that is under way. *)
Aside ==
    /\ UNCHANGED <<record, reservation>>
    /\ \A n \in Nat : Alive(n)' => Alive(n)
    /\ \A s \in Supervisor : pc'[s] \notin Outside => UNCHANGED Progress(s)
    /\ \A s \in Supervisor : pc'[s] \in {"idle", "returned"} => call'[s] = "ensure"

LEMMA OtherAside ==
    ASSUME Supervised, OtherStep
    PROVE  Aside /\ (boots' = boots \/ Reboot)
<1> USE DEF supervisorVars, files, processes, bounds, work, setup
<1>a. \A s \in Supervisor : pc[s] \in {"idle", "returned"} => call[s] = "ensure"
  BY DEF Supervised, Informed
<1>b. /\ pc \in [Supervisor -> Places] /\ call \in [Supervisor -> {"ensure", "restart"}]
      /\ seen \in [Supervisor -> Nat] /\ nonce \in [Supervisor -> Nat]
      /\ status \in [Starts -> {"none", "starting", "serving", "hung", "dead"}]
  BY DEF Supervised, RuntimeShapes
<1>c. ASSUME UNCHANGED <<supervisorVars, record, reservation, status, boots>>
      PROVE  Aside /\ boots' = boots
  BY <1>a, <1>c DEF Aside, Progress, Alive
<1>d. ASSUME UNCHANGED <<lock, seen, nonce, record, reservation, status, boots>>,
             NEW s \in Supervisor, pc[s] \in Outside, pc'[s] \in Outside,
             pc'[s] \in {"idle", "returned"} => call'[s] = "ensure",
             \A t \in Supervisor \ {s} : pc'[t] = pc[t] /\ call'[t] = call[t]
      PROVE  Aside /\ boots' = boots
  <2>1. \A n \in Nat : Alive(n)' <=> Alive(n)
    BY <1>d DEF Alive
  <2>2. ASSUME NEW t \in Supervisor
        PROVE  /\ pc'[t] \notin Outside => UNCHANGED Progress(t)
               /\ pc'[t] \in {"idle", "returned"} => call'[t] = "ensure"
    <3>1. CASE t = s
      BY <1>d, <3>1
    <3>2. CASE t # s
      BY <1>a, <1>d, <3>2 DEF Progress
    <3>3. QED
      BY <3>1, <3>2
  <2>3. QED
    BY <1>d, <2>1, <2>2 DEF Aside
<1>e. ASSUME NEW op, NEW c, AskSupervisor(op, c) \/ Answered(op),
             UNCHANGED <<record, reservation, status, boots>>
      PROVE  Aside /\ boots' = boots
  <2>1. /\ pc["agent"] \in {"idle", "returned"} /\ pc'["agent"] \in {"lock", "idle"}
        /\ pc'["agent"] = "idle" => call'["agent"] = "ensure"
        /\ \A t \in Supervisor \ {"agent"} : pc'[t] = pc[t] /\ call'[t] = call[t]
        /\ UNCHANGED <<lock, seen, nonce>>
    BY <1>a, <1>b, <1>e DEF AskSupervisor, Answered, Call, Supervisor
  <2>2. QED
    BY <1>d, <1>e, <2>1 DEF Supervisor
<1>1. CASE \E s \in Supervisor : SupervisorCrashes(s)
  <2>1. PICK s \in Supervisor : SupervisorCrashes(s)
    BY <1>1
  <2>2. UNCHANGED <<record, reservation, boots, status>> /\ Stops({s})
    BY <2>1 DEF SupervisorCrashes
  <2>3. ASSUME NEW t \in Supervisor
        PROVE  /\ pc'[t] \notin Outside => UNCHANGED Progress(t)
               /\ pc'[t] \in {"idle", "returned"} => call'[t] = "ensure"
    <3>1. CASE t = s
      BY <2>2, <3>1 DEF Stops
    <3>2. CASE t # s
      <4>1. /\ pc'[t] = pc[t] /\ call'[t] = call[t] /\ seen'[t] = seen[t] /\ nonce'[t] = nonce[t]
            /\ lock # s => lock' = lock
        BY <2>2, <3>2 DEF Stops
      <4>2. pc[t] \notin Outside => lock = t
        BY DEF Supervised, Informed
      <4>3. QED
        BY <1>a, <3>2, <4>1, <4>2 DEF Progress
    <3>3. QED
      BY <3>1, <3>2
  <2>4. QED
    BY <2>2, <2>3 DEF Aside, Alive
<1>2. CASE InstallStep
  <2>1. CASE WriteInstalling \/ Npm \/ WriteRestartRequired \/ InstallAcquires
    BY <1>c, <2>1 DEF WriteInstalling, Npm, WriteRestartRequired, InstallAcquires, Others
  <2>2. CASE InstallChecks
    <3>1. AskSupervisor("install", "restart") \/ UNCHANGED supervisorVars
      BY <2>2 DEF InstallChecks
    <3>2. UNCHANGED <<record, reservation, status, boots>>
      BY <2>2 DEF InstallChecks, Others
    <3>3. QED
      BY <1>c, <1>e, <3>1, <3>2
  <2>3. CASE InstallEnds
    <3>1. UNCHANGED <<record, reservation, status, boots>> /\ Answered("install")
      BY <2>3 DEF InstallEnds, Others
    <3>2. QED
      BY <1>e, <3>1
  <2>4. QED
    BY <1>2, <2>1, <2>2, <2>3 DEF InstallStep
<1>3. CASE RestartStep
  <2>1. CASE ReadSwitch \/ ClearSwitch
    BY <1>c, <2>1 DEF ReadSwitch, ClearSwitch, Others
  <2>2. CASE RestartChecks
    <3>1. AskSupervisor("restart", "restart") \/ UNCHANGED supervisorVars
      BY <2>2 DEF RestartChecks
    <3>2. UNCHANGED <<record, reservation, status, boots>>
      BY <2>2 DEF RestartChecks, Others
    <3>3. QED
      BY <1>c, <1>e, <3>1, <3>2
  <2>3. CASE RestartDone
    <3>1. UNCHANGED <<record, reservation, status, boots>> /\ Answered("restart")
      BY <2>3 DEF RestartDone, Others
    <3>2. QED
      BY <1>e, <3>1
  <2>4. QED
    BY <1>3, <2>1, <2>2, <2>3 DEF RestartStep
<1>4. CASE LoginEnsured
  BY <1>4, <1>e DEF LoginEnsured
<1>5. CASE ServerStep \/ CompleteLogin \/ ExpireLogin \/ CancelLogin
  BY <1>5, <1>c DEF ServerStep, TurnAnswered, LoginStarted, CancelAnswered, CompleteLogin,
     ExpireLogin, CancelLogin, Others
<1>6. CASE CliCalls
  <2>1. pc["cli"] = "idle" /\ (Call("cli", "ensure") \/ Call("cli", "restart"))
    BY <1>6 DEF CliCalls
  <2>2. /\ pc'["cli"] = "lock"
        /\ \A t \in Supervisor \ {"cli"} : pc'[t] = pc[t] /\ call'[t] = call[t]
    BY <1>b, <2>1 DEF Call, Supervisor
  <2>3. /\ UNCHANGED <<lock, nonce, record, reservation, status, boots>>
        /\ \A t \in Supervisor \ {"cli"} : seen'[t] = seen[t]
    BY <1>6, <1>b DEF CliCalls
  <2>4. ASSUME NEW t \in Supervisor
        PROVE  /\ pc'[t] \notin Outside => UNCHANGED Progress(t)
               /\ pc'[t] \in {"idle", "returned"} => call'[t] = "ensure"
    <3>1. CASE t = "cli"
      BY <2>2, <3>1
    <3>2. CASE t # "cli"
      BY <1>a, <2>2, <2>3, <3>2 DEF Progress
    <3>3. QED
      BY <3>1, <3>2
  <2>5. QED
    BY <2>3, <2>4 DEF Aside, Alive
<1>7. CASE LeaseConnects
  <2>1. /\ UNCHANGED <<lock, seen, nonce, record, reservation, status, boots>>
        /\ pc["agent"] = "idle" /\ pc'["agent"] = "lock"
        /\ \A t \in Supervisor \ {"agent"} : pc'[t] = pc[t] /\ call'[t] = call[t]
    BY <1>7, <1>b DEF LeaseConnects, Call, Supervisor
  <2>2. QED
    BY <1>d, <2>1 DEF Supervisor
<1>8. CASE AskTurn \/ TaskEnds
  BY <1>8, <1>c DEF AskTurn, TaskEnds
<1>9. CASE StartInstall \/ StartRestart
  BY <1>9, <1>c DEF StartInstall, StartRestart
<1>10. CASE StartLogin
  BY <1>10, <1>e DEF StartLogin
<1>11. ASSUME NEW n \in Starts, Serves(n) \/ Hangs(n) \/ Dies(n)
       PROVE  Aside /\ boots' = boots
  <2>1. UNCHANGED <<supervisorVars, record, reservation, boots>>
    BY <1>11 DEF Serves, Hangs, Dies
  <2>2. \A m \in Nat : Alive(m)' => Alive(m)
    <3>1. CASE Serves(n) \/ Hangs(n)
      BY <1>b, <3>1 DEF Serves, Hangs, Alive
    <3>2. CASE Dies(n)
      BY <3>2, EndsOne DEF Dies
    <3>3. QED
      BY <1>11, <3>1, <3>2
  <2>3. QED
    BY <1>a, <2>1, <2>2 DEF Aside, Progress
<1>12. CASE Reboot
  <2>1. Stops(Supervisor) /\ UNCHANGED <<record, reservation>>
    BY <1>12 DEF Reboot
  <2>2. \A n \in Nat : ~Alive(n)'
    BY <1>12, <1>b DEF Reboot, Alive
  <2>3. \A s \in Supervisor : pc'[s] = "idle" /\ call'[s] = "ensure"
    BY <2>1 DEF Stops
  <2>4. QED
    BY <1>12, <2>1, <2>2, <2>3 DEF Aside
<1>13. QED
  BY <1>1, <1>2, <1>3, <1>4, <1>5, <1>6, <1>7, <1>8, <1>9, <1>10, <1>11, <1>12 DEF OtherStep

LEMMA SupervisedStep == Supervised /\ [RuntimeNext]_runtimeVars => Supervised'
<1> SUFFICES ASSUME Supervised, [RuntimeNext]_runtimeVars PROVE Supervised'
  OBVIOUS
<1>1. RuntimeShapes'
  BY ShapesStep DEF Supervised
<1>2. ASSUME NEW s \in Supervisor, SupervisorStep(s) PROVE Supervised'
  BY <1>1, <1>2, InsideKeeps
<1>3. CASE OtherStep /\ ~Reboot
  <2>1. Aside /\ boots' = boots
    BY <1>3, OtherAside
  <2>2. QED
    BY <1>1, <2>1, NothingStarts DEF Aside, Progress
<1>4. CASE Reboot
  <2>1. \A n \in Starts : ~Alive(n)'
    BY <1>4 DEF Reboot, Alive, Supervised, RuntimeShapes
  <2>2. \A s \in Supervisor : pc'[s] = "idle" /\ call'[s] = "ensure"
    BY <1>4 DEF Reboot, Stops
  <2>3. QED
    BY <1>1, <2>1, <2>2 DEF Supervised, ServersKnown, Informed
<1>5. CASE UNCHANGED runtimeVars
  <2>1. UNCHANGED <<lock, pc, call, seen, nonce, record, reservation, status, starts, boots>>
    BY <1>5 DEF runtimeVars, supervisorVars, files, processes, bounds
  <2>2. QED
    BY <2>1 DEF Supervised, RuntimeShapes, ServersKnown, Informed, Alive
<1>6. QED
  BY <1>2, <1>3, <1>4, <1>5, StepKinds

-----------------------------------------------------------------------------
(***************************************************************************)
(* The work and the gate                                                   *)
(***************************************************************************)
Work == <<gate, asking, active, login>>

(* What a call of a supervisor leaves alone, unless it ends a process: its work and the
   gate. *)
LEMMA SupervisorFrame ==
    ASSUME Supervised, NEW s \in Supervisor, SupervisorStep(s)
    PROVE  /\ UNCHANGED <<install, restart>>
           /\ operation' = operation \/ (operation = "lease" /\ operation' = "none")
           /\ call'["agent"] \in {call["agent"], "ensure"}
           /\ \/ UNCHANGED Work /\ \A n \in Starts : Alive(n) => \E m \in Starts : Alive(m)'
              \/ \E n \in Starts : Ends(n)
<1> USE DEF supervisorVars, files, processes, bounds, work, setup
<1>1. call \in [Supervisor -> {"ensure", "restart"}] /\ Supervisor = {"agent", "cli"}
  BY DEF Supervised, RuntimeShapes, Supervisor
<1>2. ASSUME NEW r, Return(s, r)
      PROVE  /\ operation' = operation \/ (operation = "lease" /\ operation' = "none")
             /\ call'["agent"] \in {call["agent"], "ensure"}
  BY <1>1, <1>2 DEF Return
<1>3. ASSUME UNCHANGED status
      PROVE  \A n \in Starts : Alive(n) => \E m \in Starts : Alive(m)'
  BY <1>3 DEF Alive
<1>4. ASSUME UNCHANGED <<install, restart, status, gate, asking, active, login>>,
             \/ \E r : Return(s, r)
             \/ operation' = operation /\ call'["agent"] \in {call["agent"], "ensure"}
      PROVE  /\ UNCHANGED <<install, restart>>
             /\ operation' = operation \/ (operation = "lease" /\ operation' = "none")
             /\ call'["agent"] \in {call["agent"], "ensure"}
             /\ UNCHANGED Work /\ \A n \in Starts : Alive(n) => \E m \in Starts : Alive(m)'
  BY <1>2, <1>3, <1>4 DEF Work
<1>5. CASE AcquireSupervisorLock(s) \/ ProbeFirst(s)
  BY <1>4, <1>5 DEF AcquireSupervisorLock, ProbeFirst
<1>6. CASE ReadRecord(s) \/ ReclaimOrRejectStartupReservation(s) \/ RestartAppServer(s)
  <2>1. UNCHANGED <<install, restart, status, gate, asking, active, login>>
    BY <1>6 DEF ReadRecord, ReclaimOrRejectStartupReservation, RestartAppServer
  <2>2. Return(s, "failed") \/ UNCHANGED <<operation, call>>
    BY <1>6 DEF ReadRecord, ReclaimOrRejectStartupReservation, RestartAppServer
  <2>3. QED
    BY <1>4, <2>1, <2>2
<1>7. CASE RemoveRecord(s) \/ RemoveSocket(s) \/ PublishStartupReservation(s)
  <2>1. UNCHANGED <<install, restart, status, gate, asking, active, login, operation>>
    BY <1>7 DEF RemoveRecord, RemoveSocket, PublishStartupReservation
  <2>2. call' = call \/ call' = [call EXCEPT ![s] = "ensure"]
    BY <1>7 DEF RemoveRecord, RemoveSocket, PublishStartupReservation
  <2>3. call'["agent"] \in {call["agent"], "ensure"}
    BY <1>1, <2>2
  <2>4. QED
    BY <1>4, <2>1, <2>3
<1>8. CASE OutOfStarts(s) \/ RefuseKill(s) \/ CleanupSpawnedChild(s)
  <2>1. UNCHANGED <<install, restart, status, gate, asking, active, login>> /\ Return(s, "failed")
    BY <1>8 DEF OutOfStarts, RefuseKill, CleanupSpawnedChild
  <2>2. QED
    BY <1>4, <2>1
<1>9. CASE Spawn(s)
  <2>1. Informed(s) /\ UNCHANGED <<install, restart, operation, call>> /\ pc[s] = "spawn"
    BY <1>9 DEF Spawn, Supervised
  <2>2. UNCHANGED Work
    BY <1>9 DEF Spawn, Work
  <2>3. \A n \in Starts : ~Alive(n)
    BY <2>1 DEF Informed
  <2>4. QED
    BY <2>1, <2>2, <2>3
<1>10. CASE PublishOwner(s) \/ WaitUntilReady(s)
  <2>1. UNCHANGED <<install, restart, status, gate, asking, active, login>>
    BY <1>10 DEF PublishOwner, WaitUntilReady
  <2>2. Return(s, "ok") \/ UNCHANGED <<operation, call>>
    BY <1>10 DEF PublishOwner, WaitUntilReady
  <2>3. QED
    BY <1>4, <2>1, <2>2
<1>11. CASE StopSpawnedChild(s) \/ SignalTerm(s) \/ SignalKill(s)
  <2>1. UNCHANGED <<install, restart, operation, call>>
    BY <1>11 DEF StopSpawnedChild, SignalTerm, SignalKill, Signal
  <2>2. \/ UNCHANGED <<status, gate, asking, active, login>>
        \/ \E n \in Starts : Ends(n)
    BY <1>11 DEF StopSpawnedChild, SignalTerm, SignalKill, Alive
  <2>3. CASE UNCHANGED <<status, gate, asking, active, login>>
    BY <1>4, <2>1, <2>3
  <2>4. QED
    BY <2>1, <2>2, <2>3
<1>12. QED
  BY <1>5, <1>6, <1>7, <1>8, <1>9, <1>10, <1>11 DEF SupervisorStep

LEMMA WorkStep ==
    Supervised /\ WorkHasServer /\ [RuntimeNext]_runtimeVars => WorkHasServer'
<1> SUFFICES ASSUME Supervised, WorkHasServer, [RuntimeNext]_runtimeVars PROVE WorkHasServer'
  OBVIOUS
<1> USE DEF supervisorVars, files, processes, bounds, work, setup
<1> DEFINE Up == \E n \in Starts : Alive(n)
<1>a. ASSUME NEW n \in Starts, Ends(n) PROVE WorkHasServer'
  BY <1>a DEF Ends, WorkHasServer
<1>b. ASSUME UNCHANGED status,
             active' \/ asking' # None \/ login' = "active" =>
               Serving \/ active \/ asking # None \/ login = "active"
      PROVE  WorkHasServer'
  <2>1. Serving => Up
    BY DEF Serving, Alive
  <2>2. Up => Up'
    BY <1>b DEF Alive
  <2>3. QED
    BY <1>b, <2>1, <2>2 DEF WorkHasServer
<1>1. ASSUME NEW s \in Supervisor, SupervisorStep(s) PROVE WorkHasServer'
  <2>1. CASE UNCHANGED Work /\ \A n \in Starts : Alive(n) => \E m \in Starts : Alive(m)'
    BY <2>1 DEF Work, WorkHasServer
  <2>2. CASE \E n \in Starts : Ends(n)
    BY <2>2, <1>a
  <2>3. QED
    BY <1>1, <2>1, <2>2, SupervisorFrame
<1>2. ASSUME NEW s \in Supervisor, SupervisorCrashes(s) PROVE WorkHasServer'
  BY <1>b, <1>2 DEF SupervisorCrashes, Stops
<1>3. CASE InstallStep \/ RestartStep
  <2>1. UNCHANGED <<active, asking, login, status>>
    BY <1>3 DEF InstallStep, WriteInstalling, Npm, WriteRestartRequired, InstallAcquires,
       InstallChecks, InstallEnds, RestartStep, RestartChecks, RestartDone, ReadSwitch,
       ClearSwitch, Others
  <2>2. QED
    BY <1>b, <2>1
<1>4. CASE LoginEnsured \/ ServerStep
  <2>1. CASE LoginEnsured
    BY <2>1, <1>b DEF LoginEnsured
  <2>2. CASE ServerStep
    BY <2>2, <1>b DEF ServerStep, TurnAnswered, LoginStarted, CancelAnswered
  <2>3. QED
    BY <1>4, <2>1, <2>2
<1>5. CASE CliCalls \/ LeaseConnects \/ AskTurn \/ TaskEnds
  BY <1>5, <1>b DEF CliCalls, LeaseConnects, AskTurn, TaskEnds
<1>6. CASE StartInstall \/ StartRestart \/ StartLogin \/ CompleteLogin \/ ExpireLogin \/ CancelLogin
  BY <1>6, <1>b DEF StartInstall, StartRestart, StartLogin, CompleteLogin, ExpireLogin,
     CancelLogin, Others
<1>7. ASSUME NEW n \in Starts, Serves(n) \/ Hangs(n) PROVE WorkHasServer'
  <2>1. UNCHANGED <<active, asking, login>>
    BY <1>7 DEF Serves, Hangs
  <2>2. Up => Up'
    BY <1>7 DEF Serves, Hangs, Alive, Supervised, RuntimeShapes
  <2>3. QED
    BY <2>1, <2>2 DEF WorkHasServer
<1>8. ASSUME NEW n \in Starts, Dies(n) PROVE WorkHasServer'
  BY <1>8, <1>a DEF Dies
<1>9. CASE Reboot
  BY <1>9 DEF Reboot, Stops, Supervisor, WorkHasServer
<1>10. CASE UNCHANGED runtimeVars
  BY <1>10, <1>b DEF runtimeVars
<1>11. QED
  BY <1>1, <1>2, <1>3, <1>4, <1>5, <1>6, <1>7, <1>8, <1>9, <1>10 DEF RuntimeNext

LEMMA GateStep ==
    Supervised /\ GateHeld /\ [RuntimeNext]_runtimeVars => GateHeld'
<1> SUFFICES ASSUME Supervised, GateHeld, [RuntimeNext]_runtimeVars PROVE GateHeld'
  OBVIOUS
<1> USE DEF supervisorVars, files, processes, bounds, work, setup
<1>a. /\ pc \in [Supervisor -> Places] /\ call \in [Supervisor -> {"ensure", "restart"}]
      /\ pc["agent"] = "returned" => call["agent"] = "ensure"
  BY DEF Supervised, RuntimeShapes, Informed, Supervisor
<1>b. None \notin {"turn", "login", "install", "restart", "cancel"}
  OBVIOUS
<1>c. ASSUME UNCHANGED <<gate, asking, login, install, restart>>,
             operation' \in {operation, "none", "lease"},
             call'["agent"] = "restart" => call["agent"] = "restart" /\ operation' = operation
      PROVE  GateHeld'
  BY <1>c DEF GateHeld
<1>d. ASSUME NEW op, NEW c, AskSupervisor(op, c)
      PROVE  operation' = op /\ call'["agent"] = c /\ operation = "none"
  BY <1>a, <1>d DEF AskSupervisor, Call, Supervisor
<1>e. ASSUME NEW op, Answered(op)
      PROVE  operation' = "none" /\ call'["agent"] = "ensure" /\ operation = op
  BY <1>a, <1>e DEF Answered
<1>1. ASSUME NEW s \in Supervisor, SupervisorStep(s) PROVE GateHeld'
  <2>1. /\ UNCHANGED <<install, restart>>
        /\ operation' = operation \/ (operation = "lease" /\ operation' = "none")
        /\ call'["agent"] \in {call["agent"], "ensure"}
        /\ UNCHANGED Work \/ \E n \in Starts : Ends(n)
    BY <1>1, SupervisorFrame
  <2>2. call'["agent"] = "restart" => call["agent"] = "restart" /\ operation' = operation
    BY <2>1 DEF GateHeld
  <2>3. CASE UNCHANGED Work
    BY <1>c, <2>1, <2>2, <2>3 DEF Work
  <2>4. CASE \E n \in Starts : Ends(n)
    BY <1>b, <2>1, <2>2, <2>4 DEF Ends, GateHeld
  <2>5. QED
    BY <2>1, <2>3, <2>4
<1>2. ASSUME NEW s \in Supervisor, SupervisorCrashes(s) PROVE GateHeld'
  <2>1. CASE s = "agent"
    <3>1. /\ operation' = "none" /\ install' = "none" /\ restart' = "none" /\ login' = "none"
          /\ asking' = None /\ call'["agent"] = "ensure"
      BY <1>2, <2>1 DEF SupervisorCrashes, Stops
    <3>2. QED
      BY <1>b, <3>1 DEF GateHeld
  <2>2. CASE s # "agent"
    <3>1. UNCHANGED <<gate, asking, login, install, restart, operation>> /\ call'["agent"] = call["agent"]
      BY <1>2, <2>2 DEF SupervisorCrashes, Stops, Supervisor
    <3>2. QED
      BY <1>c, <3>1
  <2>3. QED
    BY <2>1, <2>2
<1>3. CASE WriteInstalling \/ Npm \/ WriteRestartRequired \/ InstallAcquires
  BY <1>3, <1>b DEF WriteInstalling, Npm, WriteRestartRequired, InstallAcquires, Acquire, Others, GateHeld
<1>4. CASE InstallChecks
  <2>1. install = "check" /\ gate = "install" /\ UNCHANGED <<asking, restart, login>>
    BY <1>4 DEF InstallChecks, Others, GateHeld
  <2>2. \/ AskSupervisor("install", "restart") /\ install' = "restart" /\ gate' = gate
        \/ install' = "none" /\ gate' = None /\ UNCHANGED <<operation, call>>
    BY <1>4 DEF InstallChecks
  <2>3. QED
    BY <1>b, <1>d, <2>1, <2>2 DEF GateHeld
<1>5. CASE InstallEnds
  <2>1. /\ install = "restart" /\ install' = "none" /\ gate' = None /\ UNCHANGED <<asking, restart, login>>
        /\ Answered("install") /\ gate = "install"
    BY <1>5 DEF InstallEnds, Others, GateHeld
  <2>2. QED
    BY <1>b, <1>e, <2>1 DEF GateHeld
<1>6. CASE RestartChecks
  <2>1. restart = "check" /\ gate = "restart" /\ UNCHANGED <<asking, install, login>>
    BY <1>6 DEF RestartChecks, Others, GateHeld
  <2>2. \/ AskSupervisor("restart", "restart") /\ restart' = "restart" /\ gate' = gate
        \/ restart' = "none" /\ gate' = None /\ UNCHANGED <<operation, call>>
    BY <1>6 DEF RestartChecks
  <2>3. QED
    BY <1>b, <1>d, <2>1, <2>2 DEF GateHeld
<1>7. CASE RestartDone
  <2>1. /\ restart = "restart" /\ UNCHANGED <<asking, install, login>> /\ Answered("restart")
        /\ (restart' = "read" /\ gate' = gate) \/ (restart' = "none" /\ gate' = None)
        /\ gate = "restart"
    BY <1>7 DEF RestartDone, Others, GateHeld
  <2>2. QED
    BY <1>b, <1>e, <2>1 DEF GateHeld
<1>8. CASE ReadSwitch \/ ClearSwitch
  BY <1>8, <1>b DEF ReadSwitch, ClearSwitch, Others, GateHeld
<1>9. CASE LoginEnsured
  <2>1. /\ login = "ensure" /\ gate = "login" /\ Answered("login") /\ UNCHANGED <<install, restart>>
        /\ \/ login' = "asked" /\ asking' = "login" /\ gate' = gate
           \/ login' = "none" /\ gate' = None /\ asking' = asking
    BY <1>9 DEF LoginEnsured, GateHeld
  <2>2. QED
    BY <1>b, <1>e, <2>1 DEF GateHeld
<1>10. CASE ServerStep
  <2>1. CASE TurnAnswered \/ CancelAnswered
    BY <1>b, <2>1 DEF TurnAnswered, CancelAnswered, GateHeld
  <2>2. CASE LoginStarted
    <3>1. /\ login = "asked" /\ gate = "login" /\ asking' = None /\ gate' = None
          /\ login' \in {"active", "none"} /\ UNCHANGED <<install, restart, operation, call>>
      BY <2>2 DEF LoginStarted, GateHeld
    <3>2. QED
      BY <1>b, <3>1 DEF GateHeld
  <2>3. QED
    BY <1>10, <2>1, <2>2 DEF ServerStep
<1>11. CASE CliCalls
  <2>1. call'["agent"] = call["agent"] /\ UNCHANGED <<gate, asking, login, install, restart, operation>>
    BY <1>a, <1>11 DEF CliCalls, Call, Supervisor
  <2>2. QED
    BY <1>c, <2>1
<1>12. CASE LeaseConnects
  BY <1>a, <1>c, <1>12 DEF LeaseConnects, Call, Supervisor
<1>13. CASE AskTurn \/ TaskEnds
  BY <1>13, <1>b DEF AskTurn, Acquire, TaskEnds, GateHeld
<1>14. CASE StartInstall \/ StartRestart
  BY <1>14, <1>b DEF StartInstall, StartRestart, Acquire, GateHeld
<1>15. CASE StartLogin
  <2>1. /\ login = "none" /\ login' = "ensure" /\ gate = None /\ gate' = "login"
        /\ AskSupervisor("login", "ensure") /\ UNCHANGED <<asking, install, restart>>
    BY <1>15 DEF StartLogin, Acquire
  <2>2. QED
    BY <1>b, <1>d, <2>1 DEF GateHeld
<1>16. CASE CompleteLogin \/ ExpireLogin
  BY <1>16 DEF CompleteLogin, ExpireLogin, Others, GateHeld
<1>17. CASE CancelLogin
  BY <1>17, <1>b DEF CancelLogin, GateHeld
<1>18. ASSUME NEW n \in Starts, Serves(n) \/ Hangs(n) PROVE GateHeld'
  BY <1>18, <1>c DEF Serves, Hangs
<1>19. ASSUME NEW n \in Starts, Dies(n) PROVE GateHeld'
  BY <1>19, <1>b DEF Dies, Ends, GateHeld
<1>20. CASE Reboot
  <2>1. /\ operation' = "none" /\ install' = "none" /\ restart' = "none" /\ login' = "none"
        /\ asking' = None /\ call'["agent"] = "ensure"
    BY <1>20 DEF Reboot, Stops, Supervisor
  <2>2. QED
    BY <1>b, <2>1 DEF GateHeld
<1>21. CASE UNCHANGED runtimeVars
  BY <1>21, <1>c DEF runtimeVars
<1>22. QED
  BY <1>1, <1>2, <1>3, <1>4, <1>5, <1>6, <1>7, <1>8, <1>9, <1>10, <1>11, <1>12, <1>13, <1>14,
     <1>15, <1>16, <1>17, <1>18, <1>19, <1>20, <1>21
  DEF RuntimeNext, InstallStep, RestartStep

-----------------------------------------------------------------------------
(***************************************************************************)
(* The restarts                                                            *)
(***************************************************************************)
Restarts == {"install", "restart"}

(* While an operation that restarts the server has the gate, nothing is asked of it and
   no work begins. *)
LEMMA RestartsAlone ==
    ASSUME GateHeld, operation \in Restarts
    PROVE  asking = None /\ gate # None
BY DEF GateHeld, Restarts

LEMMA NothingBegins ==
    ASSUME [RuntimeNext]_runtimeVars, asking # "turn", login = "none", gate # None
    PROVE  (active' => active) /\ login' = "none"
<1> USE DEF supervisorVars, files, processes, bounds, work, setup
<1>1. ASSUME NEW s \in Supervisor, SupervisorStep(s) PROVE (active' => active) /\ login' = "none"
  <2>1. CASE StopSpawnedChild(s) \/ SignalTerm(s) \/ SignalKill(s)
    BY <2>1 DEF StopSpawnedChild, SignalTerm, SignalKill, Signal, Ends
  <2>2. CASE AcquireSupervisorLock(s) \/ ProbeFirst(s) \/ ReadRecord(s) \/ RemoveRecord(s)
    BY <2>2 DEF AcquireSupervisorLock, ProbeFirst, ReadRecord, RemoveRecord
  <2>3. CASE ReclaimOrRejectStartupReservation(s) \/ RemoveSocket(s) \/ RefuseKill(s)
    BY <2>3 DEF ReclaimOrRejectStartupReservation, RemoveSocket, RefuseKill
  <2>4. CASE PublishStartupReservation(s) \/ OutOfStarts(s) \/ Spawn(s) \/ PublishOwner(s)
    BY <2>4 DEF PublishStartupReservation, OutOfStarts, Spawn, PublishOwner
  <2>5. CASE WaitUntilReady(s) \/ CleanupSpawnedChild(s) \/ RestartAppServer(s)
    BY <2>5 DEF WaitUntilReady, CleanupSpawnedChild, RestartAppServer
  <2>6. QED
    BY <1>1, <2>1, <2>2, <2>3, <2>4, <2>5 DEF SupervisorStep
<1>2. ASSUME NEW s \in Supervisor, SupervisorCrashes(s) PROVE (active' => active) /\ login' = "none"
  BY <1>2 DEF SupervisorCrashes, Stops
<1>3. CASE InstallStep \/ RestartStep
  BY <1>3 DEF InstallStep, WriteInstalling, Npm, WriteRestartRequired, InstallAcquires,
     InstallChecks, InstallEnds, RestartStep, RestartChecks, RestartDone, ReadSwitch,
     ClearSwitch, Others
<1>4. CASE LoginEnsured \/ ServerStep
  <2>1. CASE LoginEnsured
    BY <2>1 DEF LoginEnsured
  <2>2. CASE ServerStep
    <3>1. CASE TurnAnswered \/ LoginStarted
      BY <3>1 DEF TurnAnswered, LoginStarted
    <3>2. CASE CancelAnswered
      BY <3>2 DEF CancelAnswered
    <3>3. QED
      BY <2>2, <3>1, <3>2 DEF ServerStep
  <2>3. QED
    BY <1>4, <2>1, <2>2
<1>5. CASE CliCalls \/ LeaseConnects \/ AskTurn \/ TaskEnds
  BY <1>5 DEF CliCalls, LeaseConnects, AskTurn, TaskEnds
<1>6. CASE StartInstall \/ StartRestart \/ StartLogin \/ CompleteLogin \/ ExpireLogin \/ CancelLogin
  BY <1>6 DEF StartInstall, StartRestart, StartLogin, Acquire, CompleteLogin, ExpireLogin, CancelLogin, Others
<1>7. ASSUME NEW n \in Starts, Serves(n) \/ Hangs(n) \/ Dies(n) PROVE (active' => active) /\ login' = "none"
  BY <1>7 DEF Serves, Hangs, Dies, Ends
<1>8. CASE Reboot
  BY <1>8 DEF Reboot, Stops, Supervisor
<1>9. CASE UNCHANGED runtimeVars
  BY <1>9 DEF runtimeVars
<1>10. QED
  BY <1>1, <1>2, <1>3, <1>4, <1>5, <1>6, <1>7, <1>8, <1>9 DEF RuntimeNext

(* An operation that restarts the server has found it safe. *)
LEMMA RestartBegins ==
    ASSUME Supervised, OtherStep, operation' \in Restarts, operation' # operation
    PROVE  RestartSafe /\ login' = login /\ active' = active
<1> USE DEF supervisorVars, files, processes, bounds, work, setup, Restarts
<1>1. ASSUME NEW s \in Supervisor, SupervisorCrashes(s) PROVE FALSE
  BY <1>1 DEF SupervisorCrashes, Stops
<1>2. CASE InstallStep \/ RestartStep
  <2>1. CASE InstallChecks
    BY <2>1 DEF InstallChecks, Others
  <2>2. CASE RestartChecks
    BY <2>2 DEF RestartChecks, Others
  <2>3. CASE InstallEnds \/ RestartDone
    BY <2>3 DEF InstallEnds, RestartDone, Answered
  <2>4. CASE WriteInstalling \/ Npm \/ WriteRestartRequired \/ InstallAcquires \/ ReadSwitch \/ ClearSwitch
    BY <2>4 DEF WriteInstalling, Npm, WriteRestartRequired, InstallAcquires, ReadSwitch, ClearSwitch
  <2>5. QED
    BY <1>2, <2>1, <2>2, <2>3, <2>4 DEF InstallStep, RestartStep
<1>3. CASE LoginEnsured \/ ServerStep
  BY <1>3 DEF LoginEnsured, Answered, ServerStep, TurnAnswered, LoginStarted, CancelAnswered
<1>4. CASE CliCalls \/ LeaseConnects \/ AskTurn \/ TaskEnds
  BY <1>4 DEF CliCalls, LeaseConnects, AskTurn, TaskEnds
<1>5. CASE StartInstall \/ StartRestart \/ StartLogin \/ CompleteLogin \/ ExpireLogin \/ CancelLogin
  BY <1>5 DEF StartInstall, StartRestart, StartLogin, AskSupervisor, CompleteLogin, ExpireLogin,
     CancelLogin, Others
<1>6. ASSUME NEW n \in Starts, Serves(n) \/ Hangs(n) \/ Dies(n) PROVE FALSE
  BY <1>6 DEF Serves, Hangs, Dies
<1>7. CASE Reboot
  BY <1>7 DEF Reboot, Stops, Supervisor
<1>8. QED
  BY <1>1, <1>2, <1>3, <1>4, <1>5, <1>6, <1>7 DEF OtherStep

(* What a step of a supervisor does to the files and the processes: it starts one, or gives
   it its record, or leaves no more of them than there were. *)
LEMMA SupervisorFiles ==
    ASSUME Supervised, NEW s \in Supervisor, SupervisorStep(s)
    PROVE  \/ Spawn(s) \/ PublishOwner(s)
           \/ /\ record' \in {record, 0} /\ \A n \in Nat : Alive(n)' => Alive(n)
              /\ \A t \in Supervisor : pc'[t] = "publish" => pc[t] = "publish" /\ nonce'[t] = nonce[t]
<1> USE DEF supervisorVars, files, processes, bounds, work, setup
<1>a. pc \in [Supervisor -> Places] /\ nonce \in [Supervisor -> Nat]
  BY DEF Supervised, RuntimeShapes
<1>b. ASSUME UNCHANGED status PROVE \A n \in Nat : Alive(n)' => Alive(n)
  BY <1>b DEF Alive
<1>c. ASSUME NEW l, pc' = [pc EXCEPT ![s] = l], l # "publish",
             \A t \in Supervisor \ {s} : nonce'[t] = nonce[t]
      PROVE  \A t \in Supervisor : pc'[t] = "publish" => pc[t] = "publish" /\ nonce'[t] = nonce[t]
  BY <1>a, <1>c
<1>d. ASSUME NEW r, Return(s, r)
      PROVE  \A t \in Supervisor : pc'[t] = "publish" => pc[t] = "publish" /\ nonce'[t] = nonce[t]
  BY <1>a, <1>d DEF Return
<1>1. CASE AcquireSupervisorLock(s)
  BY <1>1, <1>b, <1>c DEF AcquireSupervisorLock
<1>2. CASE ProbeFirst(s) \/ WaitUntilReady(s) \/ RestartAppServer(s)
  <2>1. UNCHANGED <<record, status>>
    BY <1>2 DEF ProbeFirst, WaitUntilReady, RestartAppServer
  <2>2. \/ \E r : Return(s, r)
        \/ UNCHANGED nonce /\ \E l \in {"record", "stop", "term", "reclaim"} : pc' = [pc EXCEPT ![s] = l]
    BY <1>2 DEF ProbeFirst, WaitUntilReady, RestartAppServer
  <2>3. QED
    BY <2>1, <2>2, <1>b, <1>c, <1>d
<1>3. CASE ReadRecord(s) \/ ReclaimOrRejectStartupReservation(s)
  <2>1. UNCHANGED <<record, status>>
    BY <1>3 DEF ReadRecord, ReclaimOrRejectStartupReservation
  <2>2. \/ \E r : Return(s, r)
        \/ UNCHANGED nonce /\ \E l \in {"reclaim", "rmRecord"} : pc' = [pc EXCEPT ![s] = l]
    BY <1>3 DEF ReadRecord, ReclaimOrRejectStartupReservation
  <2>3. QED
    BY <2>1, <2>2, <1>b, <1>c, <1>d
<1>4. CASE RemoveRecord(s)
  BY <1>4, <1>b, <1>c DEF RemoveRecord
<1>5. CASE RemoveSocket(s)
  <2>1. UNCHANGED <<record, status, nonce>> /\ \E l \in {"probe", "reserve"} : pc' = [pc EXCEPT ![s] = l]
    BY <1>5 DEF RemoveSocket
  <2>2. QED
    BY <2>1, <1>b, <1>c
<1>6. CASE PublishStartupReservation(s)
  BY <1>6, <1>a, <1>b, <1>c DEF PublishStartupReservation
<1>7. CASE OutOfStarts(s) \/ CleanupSpawnedChild(s) \/ RefuseKill(s)
  <2>1. record' \in {record, 0} /\ UNCHANGED status /\ Return(s, "failed")
    BY <1>7 DEF OutOfStarts, CleanupSpawnedChild, RefuseKill
  <2>2. QED
    BY <2>1, <1>b, <1>d
<1>8. CASE StopSpawnedChild(s) \/ SignalTerm(s) \/ SignalKill(s)
  <2>1. /\ UNCHANGED <<record, nonce>> /\ \E l \in {"cleanup", "reclaim", "kill"} : pc' = [pc EXCEPT ![s] = l]
        /\ UNCHANGED status \/ \E n \in Starts : Ends(n)
    BY <1>8 DEF StopSpawnedChild, SignalTerm, SignalKill, Signal, Alive
  <2>2. \A n \in Nat : Alive(n)' => Alive(n)
    BY <2>1, <1>b, EndsOne
  <2>3. QED
    BY <2>1, <2>2, <1>c
<1>9. QED
  BY <1>1, <1>2, <1>3, <1>4, <1>5, <1>6, <1>7, <1>8 DEF SupervisorStep

LEMMA WarrantStep ==
    ASSUME RuntimeInv, [RuntimeNext]_runtimeVars
    PROVE  RestartWarranted'
<1> USE DEF Restarts
<1> SUFFICES ASSUME operation' \in Restarts
             PROVE  /\ login' = "none"
                    /\ active' => /\ ~Alive(record)'
                                  /\ \A s \in Supervisor : pc'[s] = "publish" => ~Alive(nonce[s])'
  BY DEF RestartWarranted
<1>1. Supervised /\ WorkHasServer /\ GateHeld /\ RestartWarranted
  BY DEF RuntimeInv
<1>2. ASSUME operation \in Restarts
      PROVE  /\ login' = "none" /\ (active' => active)
             /\ active => /\ ~Alive(record)
                          /\ \A s \in Supervisor : pc[s] = "publish" => ~Alive(nonce[s])
  BY <1>1, <1>2, RestartsAlone, NothingBegins, NobodyAssumption DEF RestartWarranted
<1>3. ASSUME NEW s \in Supervisor, SupervisorStep(s)
      PROVE  /\ login' = "none"
             /\ active' => /\ ~Alive(record)'
                           /\ \A t \in Supervisor : pc'[t] = "publish" => ~Alive(nonce[t])'
  <2>1. operation \in Restarts
    BY <1>1, <1>3, SupervisorFrame
  <2>2. CASE Spawn(s)
    <3>1. pc[s] = "spawn" /\ Informed(s) /\ UNCHANGED <<active, asking, login>>
      BY <1>1, <2>2 DEF Spawn, Supervised, work, setup
    <3>2. ~active
      BY <1>1, <3>1 DEF Informed, WorkHasServer
    <3>3. QED
      BY <1>2, <2>1, <3>1, <3>2
  <2>3. CASE PublishOwner(s)
    <3>1. /\ UNCHANGED <<nonce, status>> /\ pc[s] = "publish" /\ record' \in {record, nonce[s]}
          /\ pc' = [pc EXCEPT ![s] = "wait"] \/ pc' = [pc EXCEPT ![s] = "stop"]
      BY <2>3 DEF PublishOwner, processes
    <3>2. pc \in [Supervisor -> Places]
      BY <1>1 DEF Supervised, RuntimeShapes
    <3>3. \A t \in Supervisor : pc'[t] = "publish" => pc[t] = "publish"
      BY <3>1, <3>2
    <3>4. QED
      BY <1>2, <2>1, <3>1, <3>3 DEF Alive
  <2>4. CASE /\ record' \in {record, 0} /\ \A n \in Nat : Alive(n)' => Alive(n)
             /\ \A t \in Supervisor : pc'[t] = "publish" => pc[t] = "publish" /\ nonce'[t] = nonce[t]
    <3>1. record \in Nat /\ nonce \in [Supervisor -> Nat]
      BY <1>1 DEF Supervised, RuntimeShapes
    <3>2. ~Alive(0)
      BY DEF Alive
    <3>3. Alive(record)' => Alive(record)
      BY <2>4, <3>1, <3>2 DEF Alive
    <3>4. \A t \in Supervisor : pc'[t] = "publish" /\ Alive(nonce[t])' => pc[t] = "publish" /\ Alive(nonce[t])
      BY <2>4, <3>1 DEF Alive
    <3>5. QED
      BY <1>2, <2>1, <3>3, <3>4
  <2>5. QED
    BY <1>1, <1>3, <2>2, <2>3, <2>4, SupervisorFiles
<1>4. ASSUME OtherStep
      PROVE  /\ login' = "none"
             /\ active' => /\ ~Alive(record)'
                           /\ \A t \in Supervisor : pc'[t] = "publish" => ~Alive(nonce[t])'
  <2>1. Aside
    BY <1>1, <1>4, OtherAside
  <2>2. record \in Nat /\ nonce \in [Supervisor -> Nat]
    BY <1>1 DEF Supervised, RuntimeShapes
  <2>3. /\ Alive(record)' => Alive(record)
        /\ \A t \in Supervisor : pc'[t] = "publish" /\ Alive(nonce[t])' => pc[t] = "publish" /\ Alive(nonce[t])
    BY <2>1, <2>2 DEF Aside, Progress, Alive
  <2>4. CASE operation' = operation
    BY <1>2, <2>3, <2>4
  <2>5. CASE operation' # operation
    <3>1. RestartSafe /\ login' = login /\ active' = active
      BY <1>1, <1>4, <2>5, RestartBegins
    <3>2. active => ~Starting /\ ~Alive(record)
      BY <3>1 DEF RestartSafe
    <3>3. ASSUME NEW t \in Supervisor, pc[t] = "publish", ~Starting PROVE FALSE
      <4>1. record = 0 /\ reservation = [nonce |-> nonce[t], boot |-> boots] /\ nonce[t] \in Starts
        BY <1>1, <3>3 DEF Supervised, Informed
      <4>2. QED
        BY <3>3, <4>1 DEF Starting, NoReservation
    <3>4. QED
      BY <2>3, <3>1, <3>2, <3>3 DEF RestartSafe
  <2>6. QED
    BY <2>4, <2>5
<1>5. CASE UNCHANGED runtimeVars
  <2>1. UNCHANGED <<operation, login, active, record, pc, nonce, status>>
    BY <1>5 DEF runtimeVars, supervisorVars, files, processes, work, setup
  <2>2. QED
    BY <1>2, <2>1 DEF Alive
<1>6. QED
  BY <1>3, <1>4, <1>5, StepKinds

(* A supervisor comes to signal only the process of a record that it has found alive. *)
LEMMA SignalPlaces ==
    ASSUME NEW s \in Supervisor, SupervisorStep(s)
    PROVE  \E l : pc' = [pc EXCEPT ![s] = l] /\ (l \in {"term", "kill"} =>
             pc[s] \in {"term", "kill"} \/ (Alive(record) /\ UNCHANGED <<record, status>>))
<1> USE DEF files, processes
<1>1. ASSUME NEW r, Return(s, r)
      PROVE  \E l \in {"returned", "idle"} : pc' = [pc EXCEPT ![s] = l]
  BY <1>1 DEF Return
<1>2. CASE AcquireSupervisorLock(s) \/ ProbeFirst(s) \/ ReadRecord(s) \/ WaitUntilReady(s)
  <2>1. \E l \in {"probe", "restart", "record", "reclaim", "stop", "returned", "idle"} :
           pc' = [pc EXCEPT ![s] = l]
    BY <1>1, <1>2 DEF AcquireSupervisorLock, ProbeFirst, ReadRecord, WaitUntilReady
  <2>2. QED
    BY <2>1
<1>3. CASE ReclaimOrRejectStartupReservation(s) \/ RemoveRecord(s) \/ RemoveSocket(s)
           \/ PublishStartupReservation(s)
  <2>1. \E l \in {"rmRecord", "rmSocket", "probe", "reserve", "spawn", "returned", "idle"} :
           pc' = [pc EXCEPT ![s] = l]
    BY <1>1, <1>3 DEF ReclaimOrRejectStartupReservation, RemoveRecord, RemoveSocket,
       PublishStartupReservation
  <2>2. QED
    BY <2>1
<1>4. CASE Spawn(s) \/ PublishOwner(s) \/ StopSpawnedChild(s)
  <2>1. \E l \in {"publish", "cleanup", "wait", "stop"} : pc' = [pc EXCEPT ![s] = l]
    BY <1>4 DEF Spawn, PublishOwner, StopSpawnedChild
  <2>2. QED
    BY <2>1
<1>5. CASE OutOfStarts(s) \/ CleanupSpawnedChild(s) \/ RefuseKill(s)
  <2>1. Return(s, "failed")
    BY <1>5 DEF OutOfStarts, CleanupSpawnedChild, RefuseKill
  <2>2. QED
    BY <1>1, <2>1
<1>6. CASE RestartAppServer(s)
  <2>1. \/ Return(s, "failed") \/ pc' = [pc EXCEPT ![s] = "reclaim"]
        \/ pc' = [pc EXCEPT ![s] = "term"] /\ Alive(record) /\ UNCHANGED <<record, status>>
    BY <1>6 DEF RestartAppServer
  <2>2. QED
    BY <1>1, <2>1
<1>7. CASE SignalTerm(s) \/ SignalKill(s)
  <2>1. /\ pc[s] \in {"term", "kill"}
        /\ \E l \in {"reclaim", "kill"} : pc' = [pc EXCEPT ![s] = l]
    BY <1>7 DEF SignalTerm, SignalKill, Signal
  <2>2. QED
    BY <2>1
<1>8. QED
  BY <1>2, <1>3, <1>4, <1>5, <1>6, <1>7 DEF SupervisorStep

LEMMA SparingStep ==
    ASSUME RuntimeInv, [RuntimeNext]_runtimeVars, Supervised', GateHeld', RestartWarranted'
    PROVE  RestartSparesWork'
<1> SUFFICES ASSUME pc'["agent"] \in {"term", "kill"} PROVE ~active' /\ login' # "active"
  BY DEF RestartSparesWork
<1> USE DEF Restarts, Supervisor
<1>1. Supervised /\ GateHeld /\ RestartWarranted /\ RestartSparesWork
  BY DEF RuntimeInv
<1>2. operation' \in Restarts /\ login' = "none"
  BY DEF Supervised, Informed, GateHeld, RestartWarranted
<1>3. ASSUME pc["agent"] \in {"term", "kill"} PROVE ~active'
  <2>1. operation \in Restarts /\ login = "none" /\ ~active
    BY <1>1, <1>3 DEF Supervised, Informed, GateHeld, RestartWarranted, RestartSparesWork
  <2>2. QED
    BY <1>1, <2>1, RestartsAlone, NothingBegins, NobodyAssumption
<1>4. ASSUME pc["agent"] \notin {"term", "kill"} PROVE Alive(record)'
  <2>1. ASSUME NEW s \in Supervisor, SupervisorStep(s) PROVE Alive(record)'
    <3>1. pc \in [Supervisor -> Places]
      BY <1>1 DEF Supervised, RuntimeShapes
    <3>2. PICK l : pc' = [pc EXCEPT ![s] = l] /\ (l \in {"term", "kill"} =>
            pc[s] \in {"term", "kill"} \/ (Alive(record) /\ UNCHANGED <<record, status>>))
      BY <2>1, SignalPlaces
    <3>3. s = "agent" /\ l \in {"term", "kill"}
      BY <1>4, <3>1, <3>2
    <3>4. QED
      BY <1>4, <3>2, <3>3 DEF Alive
  <2>2. CASE OtherStep
    BY <1>1, <1>4, <2>2, OtherAside DEF Aside, Progress
  <2>3. CASE UNCHANGED runtimeVars
    BY <1>4, <2>3 DEF runtimeVars, supervisorVars
  <2>4. QED
    BY <2>1, <2>2, <2>3, StepKinds
<1>5. QED
  BY <1>2, <1>3, <1>4 DEF RestartWarranted

-----------------------------------------------------------------------------
LEMMA RuntimeStep == RuntimeInv /\ [RuntimeNext]_runtimeVars => RuntimeInv'
<1> SUFFICES ASSUME RuntimeInv, [RuntimeNext]_runtimeVars PROVE RuntimeInv'
  OBVIOUS
<1>1. Supervised' /\ WorkHasServer' /\ GateHeld'
  BY SupervisedStep, WorkStep, GateStep DEF RuntimeInv
<1>2. RestartWarranted'
  BY WarrantStep
<1>3. RestartSparesWork'
  BY <1>1, <1>2, SparingStep
<1>4. QED
  BY <1>1, <1>2, <1>3 DEF RuntimeInv

LEMMA RuntimeStart == RuntimeInit => RuntimeInv
<1> SUFFICES ASSUME RuntimeInit PROVE RuntimeInv
  OBVIOUS
<1> USE DEF RuntimeInit, NoReservation
<1>1. \A n \in Starts : ~Alive(n)
  BY DEF Alive
<1>2. RuntimeShapes
  BY DEF RuntimeShapes, Places
<1>3. Supervised
  BY <1>1, <1>2 DEF Supervised, ServersKnown, Informed
<1>4. WorkHasServer /\ GateHeld /\ RestartWarranted /\ RestartSparesWork
  BY DEF WorkHasServer, GateHeld, RestartWarranted, RestartSparesWork, Supervisor
<1>5. QED
  BY <1>3, <1>4 DEF RuntimeInv

(* What the supervisors, their files and the runtime gate preserve together: every process
   is known by its record or by the reservation of its start, whoever is inside a call
   knows which processes there are, and what a restart was warranted by stays so until it
   signals (app-server-supervisor, SetupService behind the runtime gate). *)
THEOREM RuntimeInvariant == RuntimeSpec => []RuntimeInv
<1>1. RuntimeInit => RuntimeInv
  BY RuntimeStart
<1>2. RuntimeInv /\ [RuntimeNext]_runtimeVars => RuntimeInv'
  BY RuntimeStep
<1>3. QED
  BY <1>1, <1>2, PTL DEF RuntimeSpec

(* At most one member, at most one process. *)
LEMMA OneKnown == ASSUME ServersKnown PROVE OneAppServer
<1> DEFINE running == {n \in Starts : Alive(n)}
<1>1. CASE running = {}
  BY <1>1, FS_EmptySet DEF OneAppServer
<1>2. CASE running # {}
  <2>1. PICK n : n \in running
    BY <1>2
  <2>2. running = {n}
    BY <2>1 DEF ServersKnown
  <2>3. Cardinality(running) = 1
    BY <2>2, FS_Singleton
  <2>4. QED
    BY <2>3 DEF OneAppServer
<1>3. QED
  BY <1>1, <1>2

(* A user never has two app-servers (ensureAppServer, restartAppServer), and the agent's
   supervisor never signals one with a task or a device login under way, through
   crashes of either supervisor, servers that hang or die, and reboots. *)
THEOREM AppServersKept == RuntimeSpec => []AppServerKept
<1>1. RuntimeInv => AppServerKept
  BY OneKnown DEF RuntimeInv, Supervised, AppServerKept
<1>2. QED
  BY <1>1, RuntimeInvariant, PTL
=============================================================================
