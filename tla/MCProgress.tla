----------------------------- MODULE MCProgress -----------------------------
(* What the Agent has begun comes to its end, for TLC: durable mutations, queued
   messages and leases, each through crashes and failing
   transactions. They are independent, so a behaviour is about one of them,
   drawn at the start. *)
EXTENDS MutationReceipts, TLC

CONSTANTS r1, r2, r3, k1, a, b, t1, t2, h1, h2

VARIABLES part,    \* the component this behaviour is about
          x1, x2, x3, x4, x5, x6, x7, x8, x9, x10, x11, x12, x13, x14, x15, x16, x17,
          x18, x19, x20, x21    \* its state, under its own names

state == <<x1, x2, x3, x4, x5, x6, x7, x8, x9, x10, x11, x12, x13, x14, x15, x16, x17,
           x18, x19, x20, x21>>

(* Two replays of one operation key, and a request that uses the key for
   another input. *)
OneKey == [r \in {r1, r2, r3} |-> k1]
TwoInputs == (r1 :> a) @@ (r2 :> a) @@ (r3 :> b)

(* Two messages for one task, the dispatcher h2 and one steerer. *)
Q == INSTANCE QueueDelivery WITH
    MaxFaults <- 0, Items <- {1, 2}, Threads <- {t1}, ThreadOf <- [i \in {1, 2} |-> t1],
    Steerers <- {h1}, Dispatcher <- h2, Nobody <- None, MaxRetries <- 0,
    MaxCrashes <- 1, MaxTurns <- 0, mem <- x1, disk <- x2, faults <- x3, started <- x4,
    pc <- x5, cur <- x6, seen <- x7, key <- x8, gate <- x9, issued <- x10, turn <- x11,
    wire <- x12, accepted <- x13, refused <- x14, sent <- x15, retired <- x16,
    dismissed <- x17, removed <- x18, used <- x19, crashes <- x20, turns <- x21

(* A session opens the task that another one starts. *)
L == INSTANCE ThreadLeases WITH
    Tasks <- {t1, t2}, Holders <- {h1, h2}, Starters <- {h2},
    TaskOf <- [h \in {h1, h2} |-> t1], maximumLeases <- 2, MaxClients <- 2,
    MaxFailures <- 1, leases <- x1, creating <- x2, disposing <- x3, starting <- x4,
    closed <- x5, phase <- x6, task <- x7, state <- x8, refs <- x9, asks <- x10,
    sweeps <- x11, broken <- x12, pc <- x13, at <- x14, awaits <- x15, scoped <- x16,
    evicted <- x17, deleted <- x18, failures <- x19

ProgressInit ==
    /\ MutationInit
    /\ \/ /\ part = "mutations"
          /\ x1 = 0 /\ x2 = 0 /\ x3 = 0 /\ x4 = 0 /\ x5 = 0 /\ x6 = 0 /\ x7 = 0
          /\ x8 = 0 /\ x9 = 0 /\ x10 = 0 /\ x11 = 0 /\ x12 = 0 /\ x13 = 0 /\ x14 = 0
          /\ x15 = 0 /\ x16 = 0 /\ x17 = 0 /\ x18 = 0 /\ x19 = 0 /\ x20 = 0 /\ x21 = 0
       \/ /\ part = "queue" /\ Q!Init
       \/ /\ part = "leases" /\ L!Init
          /\ x20 = 0 /\ x21 = 0

ProgressNext ==
    /\ UNCHANGED part
    /\ \/ /\ part = "mutations" /\ MutationNext
          /\ UNCHANGED <<x1, x2, x3, x4, x5, x6, x7, x8, x9, x10, x11, x12, x13, x14,
                       x15, x16, x17, x18, x19, x20, x21>>
       \/ /\ part = "queue" /\ Q!Next
          /\ UNCHANGED mutationVars
       \/ /\ part = "leases" /\ L!Next
          /\ UNCHANGED <<mutationVars, x20, x21>>

ProgressSpec == ProgressInit /\ [][ProgressNext]_<<part, state, mutationVars>>

first19 == <<x1, x2, x3, x4, x5, x6, x7, x8, x9, x10, x11, x12, x13, x14, x15, x16, x17,
           x18, x19>>

(* What each component assumes of its own steps, while the behaviour is about it. *)
FairProgressSpec ==
    /\ ProgressSpec
    /\ WF_mutationVars(part = "mutations" /\ Recover("ok"))
    /\ \A r \in Requests : WF_mutationVars(part = "mutations" /\ RequestStep(r))
    /\ WF_state(part = "queue" /\ Q!Start("ok"))
    /\ WF_state(part = "queue" /\ Q!DispatcherStep)
    /\ \A w \in {h1, h2} : WF_state(part = "queue" /\ Q!Deliver(w))
    /\ WF_state(part = "queue" /\ Q!InspectForSteer(h1))
    /\ WF_state(part = "queue" /\ Q!EndTurn(t1))
    /\ \A h \in {h1, h2} : SF_first19(part = "leases" /\ L!HolderStep(h))
    /\ \A l \in 1 .. 2 : SF_first19(part = "leases" /\ L!LeaseStep(l))

-----------------------------------------------------------------------------
ASSUME L!HoldersAssumption /\ L!LeaseBoundsAssumption /\ L!NoneAssumption

(* QueueService: a message that is not behind a message somebody must decide about is
   dispatched, and one that is being delivered is settled, through a crash. *)
MessagesProceed ==
    /\ <>[](part = "queue" => Q!NobodyWaits) =>
           []<>(part = "queue" => \A i \in {1, 2} : Q!Dispatched(i))
    /\ []<>(part = "queue" => \A i \in {1, 2} : Q!Settled(i))

(* ThreadLeaseManager.acquire, start, #dispose: every acquisition comes back, with a
   lease or an error, and a lease that nobody needs is closed. *)
AcquisitionsReturn ==
    []<>(part = "leases" => (\A h \in {h1, h2} : L!Returned(h)) /\ \A l \in 1 .. 2 : L!Needed(l))
=============================================================================
