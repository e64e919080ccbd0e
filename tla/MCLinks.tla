------------------------------ MODULE MCLinks -------------------------------
(* What survives broken connections, for TLC: the Agent's route at the Relay, a
   page's operations across transports, and the flows that connect a page. They are
   independent, so a behaviour is about one of them, drawn at the start. *)
EXTENDS Relay, TLC

CONSTANTS r1, r2, k1, k2, a, Nil

VARIABLES part,    \* the component this behaviour is about
          x1, x2, x3, x4, x5, x6, x7, x8, x9, x10, x11, x12, x13, x14, x15, x16, x17,
          x18    \* the state of the two flows of the page, under its own names

state == <<x1, x2, x3, x4, x5, x6, x7, x8, x9, x10, x11, x12, x13, x14, x15, x16, x17,
           x18>>
clientState == <<x14, x15, x16, x17, x18>>    \* the page's part of the state of MutationClient

OwnKeys == (r1 :> k1) @@ (r2 :> k2)
SameInput == [r \in {r1, r2} |-> a]
ConnectScenes ==
    {[targets |-> 2, flows |-> 1, faults |-> 2], [targets |-> 1, flows |-> 2, faults |-> 1],
     [targets |-> 1, flows |-> 1, faults |-> 2], [targets |-> 2, flows |-> 2, faults |-> 0]}

(* One submission of the composer and one durableMutation of the same page. *)
M == INSTANCE MutationClient WITH
    MaxFaults <- 0, Requests <- {r1, r2}, Keys <- {k1, k2}, KeyOf <- OwnKeys,
    InputOf <- SameInput, None <- Nil, TTL <- 1, MaxNow <- 0, MaxCrashes <- 1,
    Composers <- {r1}, MaxLinks <- 2, mem <- x1, disk <- x2, faults <- x3, up <- x4,
    pc <- x5, inflight <- x6, outcome <- x7, answer <- x8, from <- x9, ran <- x10,
    pruned <- x11, now <- x12, crashes <- x13, client <- x14, link <- x15,
    linked <- x16, session <- x17, queue <- x18

(* The four flows, over one or two targets, with at most two failures. *)
C == INSTANCE Connect WITH
    Kinds <- {"pair", "login", "connect", "enrol"}, Slot <- {1, 2, 3}, MaxTries <- 3,
    Scenes <- ConnectScenes, page <- x1, port <- x2, opening <- x3, links <- x4,
    call <- x5, agent <- x6, saved <- x7, heard <- x8, bounds <- x9

LinksInit ==
    /\ Init
    /\ \/ /\ part = "route"
          /\ x1 = 0 /\ x2 = 0 /\ x3 = 0 /\ x4 = 0 /\ x5 = 0 /\ x6 = 0 /\ x7 = 0 /\ x8 = 0
          /\ x9 = 0 /\ x10 = 0 /\ x11 = 0 /\ x12 = 0 /\ x13 = 0 /\ x14 = 0 /\ x15 = 0
          /\ x16 = 0 /\ x17 = 0 /\ x18 = 0
       \/ /\ part = "client" /\ ~ Legacy(config)
          /\ M!Init
       \/ /\ part = "connect" /\ ~ Legacy(config)
          /\ C!Init
          /\ x10 = 0 /\ x11 = 0 /\ x12 = 0 /\ x13 = 0 /\ x14 = 0 /\ x15 = 0 /\ x16 = 0
          /\ x17 = 0 /\ x18 = 0

LinksNext ==
    /\ UNCHANGED part
    /\ \/ part = "route" /\ Next /\ UNCHANGED state
       \/ part = "client" /\ M!Next /\ UNCHANGED vars
       \/ /\ part = "connect" /\ C!Next
          /\ UNCHANGED <<x10, x11, x12, x13, x14, x15, x16, x17, x18, vars>>

LinksSpec == LinksInit /\ [][LinksNext]_<<part, state, vars>>

first9 == <<x1, x2, x3, x4, x5, x6, x7, x8, x9>>

(* What each component assumes of its own steps, while the behaviour is about it. *)
FairLinksSpec ==
    /\ LinksSpec
    /\ WF_vars(part = "route" /\ ExpireRouteAuthorization)
    /\ WF_vars(part = "route" /\ TransitionBegins)
    /\ WF_vars(part = "route" /\ Registered)
    /\ WF_vars(part = "route" /\ NoRegistration)
    /\ WF_vars(part = "route" /\ ReconnectTimer)
    /\ WF_vars(part = "route" /\ ControlClosedAtAgent)
    /\ WF_vars(part = "route" /\ \E c \in Ctl : SendRegistration(c))
    /\ \A c \in Ctl : WF_vars(part = "route" /\ Register(c))
    /\ \A c \in Ctl : WF_vars(part = "route" /\ ControlClosedAtRelay(c))
    /\ WF_vars(part = "route" /\ LoopReads)
    /\ WF_vars(part = "route" /\ LoopGrant)
    /\ WF_vars(part = "route" /\ LoopApplies)
    /\ WF_vars(part = "route" /\ LoopNotifies)
    /\ WF_vars(part = "route" /\ AgentStarts)
    /\ WF_vars(part = "route" /\ AgentExits)
    /\ WF_state(part = "client" /\ M!Recover("ok") /\ UNCHANGED clientState)
    /\ \A r \in {r1, r2} : WF_state(part = "client" /\ M!RequestStep(r) /\ UNCHANGED clientState)
    /\ \A r \in {r1, r2} : WF_state(part = "client" /\ M!Timeout(r))
    /\ \A r \in {r1, r2} : WF_state(part = "client" /\ M!Poll(r, "ok"))
    /\ \A r \in {r1, r2} : WF_state(part = "client" /\ M!PollInVain(r))
    /\ \A e \in 1 .. 2 : WF_state(part = "client" /\ M!Dispatch(e))
    /\ \A e \in 1 .. 2 : WF_state(part = "client" /\ M!Respond(e))
    /\ WF_state(part = "client" /\ M!Reconnect)
    /\ WF_first9(part = "connect" /\ C!PageStep)
    /\ WF_first9(part = "connect" /\ C!AgentStep)
    /\ \A o \in C!Openers : WF_first9(part = "connect" /\ (C!Dial(o) \/ C!OpenBroken(o) \/ C!OpenRefused(o) \/ C!OpenReply(o)))
    /\ WF_first9(part = "connect" /\ C!Reconnect)
    /\ WF_first9(part = "connect" /\ (C!Prompt \/ C!Save \/ C!Ask \/ C!Delay \/ C!Hear))
    /\ \A n \in {1, 2, 3} : WF_first9(part = "connect" /\ C!AgentEnded(n) /\ C!Lose(n))
    /\ \A n \in {1, 2, 3} : WF_first9(part = "connect" /\ C!Accept(n))

-----------------------------------------------------------------------------
ASSUME M!ClientAssumption /\ C!ConnectAssumption

(* RelayConnector.#scheduleReconnect and the renewal loop: once the faults are over, an
   Agent with a valid credential is the relay's route again. *)
RouteComesBack == <>[](part = "route" => ValidIsOnline)

(* durable-mutation: the page learns what became of every operation, or asks its user. *)
OperationsSettle == []<>(part = "client" => \A r \in {r1, r2} : M!Informed(r))

(* connectHost and ReconnectingGatewayPort: no connection is forgotten, a session is on
   the connection it was made for, and a device key that the Agent accepted is kept. *)
PairingKept == part = "connect" => C!NoForgottenLink /\ C!SessionBound /\ C!PairingKept

(* ReconnectingGatewayPort: a port that lost its transport has one again. *)
PortComesBack == []<>(part = "connect" => C!Connected)
=============================================================================
