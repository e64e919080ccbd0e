----------------------------- MODULE MCSessions -----------------------------
(* What the sessions of a page see, for TLC: the tasks a session holds and their names,
   a page's operations across transports, and the encrypted channel. They are
   independent, so a behaviour is about one of them, drawn at the start. *)
EXTENDS MutationClient, TLC

CONSTANTS u1, u2, r1, r2, w1, w2, n1, n2, q1, q2, k1, k2, a, Title

VARIABLES part,    \* the component this behaviour is about
          x1, x2, x3, x4, x5, x6, x7, x8, x9, x10, x11, x12, x13, x14, x15, x16, x17,
          x18, x19    \* its state, under its own names

state == <<x1, x2, x3, x4, x5, x6, x7, x8, x9, x10, x11, x12, x13, x14, x15, x16, x17,
           x18, x19>>

(* One submission of the composer and one durableMutation of the same page, each with
   its own operation key. *)
OwnKeys == (q1 :> k1) @@ (q2 :> k2)
SameInput == [r \in {q1, q2} |-> a]

(* Two sessions, two calls at a time, two workspaces, one fault. *)
T == INSTANCE Threads WITH
    Session <- {u1, u2}, Call <- {r1, r2}, Workspace <- {w1, w2}, Name <- {n1, n2},
    MaxOps <- 4, MaxFaults <- 1, lease <- x1, viewers <- x2, session <- x3, view <- x4,
    held <- x5, opening <- x6, closing <- x7, req <- x8, roots <- x9, rev <- x10,
    default <- x11, turn <- x12, name <- x13, chan <- x14, pend <- x15, explicit <- x16,
    leases <- x17, ops <- x18, faults <- x19

(* Two connections share a budget of three records; messages of two records fit the limit, longer ones do not. *)
C == INSTANCE SecureChannel WITH
    Conn <- {u1, u2}, Sizes <- {2, 3}, Limit <- 2, Budget <- 3, AnswerSizes <- {2},
    MaxMessages <- 3, MaxTimeouts <- 1, sent <- x1, wire <- x2, back <- x3, seq <- x4,
    fragments <- x5, answers <- x6, socket <- x7, got <- x8, queued <- x9,
    running <- x10, finished <- x11, pending <- x12, settled <- x13, reserved <- x14,
    timeouts <- x15

SessionsInit ==
    /\ Init
    /\ \/ /\ part = "threads" /\ T!Init
       \/ /\ part = "client"
          /\ x1 = 0 /\ x2 = 0 /\ x3 = 0 /\ x4 = 0 /\ x5 = 0 /\ x6 = 0 /\ x7 = 0
          /\ x8 = 0 /\ x9 = 0 /\ x10 = 0 /\ x11 = 0 /\ x12 = 0 /\ x13 = 0 /\ x14 = 0
          /\ x15 = 0 /\ x16 = 0 /\ x17 = 0 /\ x18 = 0 /\ x19 = 0
       \/ /\ part = "channel" /\ C!Init
          /\ x16 = 0 /\ x17 = 0 /\ x18 = 0 /\ x19 = 0

SessionsNext ==
    /\ UNCHANGED part
    /\ \/ /\ part = "threads" /\ T!Next
          /\ UNCHANGED vars
       \/ /\ part = "client" /\ Next
          /\ UNCHANGED <<x1, x2, x3, x4, x5, x6, x7, x8, x9, x10, x11, x12, x13, x14,
                       x15, x16, x17, x18, x19>>
       \/ /\ part = "channel" /\ C!Next
          /\ UNCHANGED <<vars, x16, x17, x18, x19>>

SessionsSpec == SessionsInit /\ [][SessionsNext]_<<part, state, vars>>

(* Sessions and connections, calls, and names are interchangeable. *)
Symmetry == Permutations({u1, u2}) \cup Permutations({r1, r2}) \cup Permutations({n1, n2})

-----------------------------------------------------------------------------
ASSUME T!ThreadsAssumption /\ C!ChannelAssumption

(* AgentGatewaySession and AutoTitleService: a session holds one reference to the task it
   shows and none once it has ended, a derived title yields to an explicit name while
   no request fails, and a turn or a name is sent to a task only if the resolution of its
   path before it ended with an authorized workspace. *)
ReferencesKept ==
    /\ [](part = "threads" => T!OneReference /\ T!EndedHoldsNothing /\ T!TitleYields)
    /\ [][part = "threads" => T!ResolvedIsAuthorized]_state

(* SecureSession and GatewayV2Connection: the shared budget holds exactly the assemblies
   in progress, and a connection's requests are taken once and in their order. *)
ChannelKept == part = "channel" => C!BudgetExact /\ C!InOrder
=============================================================================
