----------------------------- MODULE MCServices -----------------------------
(* What the services of a host bring to an end, for TLC: supervision of the
   app-server, changes of the administrator and side chats.
   They are independent, so a behaviour is about one of them, drawn at the start. *)
EXTENDS Admin, Runtime, TLC

CONSTANTS o1, o2, Nil

VARIABLES part,    \* the component this behaviour is about
          x1, x2, x3, x4, x5, x6, x7, x8, x9, x10, x11, x12, x13, x14, x15, x16, x17, x18
                       \* its state, under its own names

state == <<x1, x2, x3, x4, x5, x6, x7, x8, x9, x10, x11, x12, x13, x14, x15, x16, x17, x18>>

(* One creation of a side chat, one crash, one failing transaction. *)
S == INSTANCE SideChats WITH
    MaxFaults <- 1, MaxKeys <- 1, MaxCrashes <- 1, mem <- x1, disk <- x2, faults <- x3,
    up <- x4, issued <- x5, kind <- x6, pc <- x7, key <- x8, known <- x9, reply <- x10,
    orphans <- x11, forks <- x12, running <- x13, parent <- x14, abandoned <- x15,
    unseen <- x16, crashes <- x17, unsettled <- x18

ServicesInit ==
    /\ Init /\ RuntimeInit
    /\ \/ /\ part = "admin"
          /\ x1 = 0 /\ x2 = 0 /\ x3 = 0 /\ x4 = 0 /\ x5 = 0 /\ x6 = 0 /\ x7 = 0
          /\ x8 = 0 /\ x9 = 0 /\ x10 = 0 /\ x11 = 0 /\ x12 = 0 /\ x13 = 0 /\ x14 = 0
          /\ x15 = 0 /\ x16 = 0 /\ x17 = 0 /\ x18 = 0
       \/ /\ part = "runtime" /\ watchdog
          /\ x1 = 0 /\ x2 = 0 /\ x3 = 0 /\ x4 = 0 /\ x5 = 0 /\ x6 = 0 /\ x7 = 0
          /\ x8 = 0 /\ x9 = 0 /\ x10 = 0 /\ x11 = 0 /\ x12 = 0 /\ x13 = 0 /\ x14 = 0
          /\ x15 = 0 /\ x16 = 0 /\ x17 = 0 /\ x18 = 0
       \/ /\ part = "side" /\ watchdog
          /\ S!Init

ServicesNext ==
    /\ UNCHANGED part
    /\ \/ part = "runtime" /\ RuntimeNext /\ UNCHANGED <<state, vars>>
       \/ part = "admin" /\ Next /\ UNCHANGED <<state, runtimeVars>>
       \/ part = "side" /\ S!Next /\ UNCHANGED <<vars, runtimeVars>>

ServicesSpec == ServicesInit /\ [][ServicesNext]_<<part, state, vars, runtimeVars>>

(* What each component assumes of its own steps, while the behaviour is about it. *)
FairServicesSpec ==
    /\ ServicesSpec
    /\ WF_runtimeVars(part = "runtime" /\ InstallStep)
    /\ WF_runtimeVars(part = "runtime" /\ RestartStep)
    /\ WF_runtimeVars(part = "runtime" /\ LoginEnsured)
    /\ WF_runtimeVars(part = "runtime" /\ ServerStep)
    /\ \A s \in Supervisor : WF_runtimeVars(part = "runtime" /\ SupervisorStep(s))
    /\ \A o \in Op : WF_vars(part = "admin" /\ OpStep(o))
    /\ \A o \in Op : WF_vars(part = "admin" /\ MaintenanceBegin(o))
    /\ WF_vars(part = "admin" /\ WatchdogTick)
    /\ WF_vars(part = "admin" /\ AgentReady)
    /\ WF_vars(part = "admin" /\ TimePasses)
    /\ WF_state(part = "side" /\ S!Proceed)
    /\ WF_state(part = "side" /\ \E o \in S!TxOutcome : S!Restart(o))

-----------------------------------------------------------------------------
ASSUME S!SideAssumption

(* SideChatService.start, #delete: no operation on a side chat stays under way, over a
   crash, lost answers and a failing transaction, unless the transaction that fails is
   the last one of the call, which was to settle the row; then the next start of the
   agent does. *)
OperationSettles == []<>(part = "side" => S!Settled)
=============================================================================
