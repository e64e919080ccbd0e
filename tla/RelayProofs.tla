---------------------------- MODULE RelayProofs -----------------------------
(***************************************************************************)
(* Proofs about Relay, for any sockets, connections, limits, lifetimes and *)
(* numbers of faults: the agent never falls behind the relay's high-water  *)
(* mark, whatever is lost and whichever side restarts, and the relay keeps *)
(* nothing for a route that no authorization covers or beyond its load.    *)
(***************************************************************************)
EXTENDS Relay, FiniteSetTheorems, TLAPS

USE RelayAssumption

(* The steps that move what the relay holds for the route. *)
RelaySide ==
    \/ ExpireRouteAuthorization \/ RelayRestarts
    \/ \E c \in Ctl : Register(c) \/ ControlClosedAtRelay(c)
    \/ \E k \in Conn : \/ PendingTimeout(k) \/ AcceptTunnel(k) \/ TunnelReady(k)
                       \/ TunnelSetupFails(k) \/ BrowserClosedAtRelay(k)
                       \/ TunnelClosedAtRelay(k) \/ Connect(k) \/ Forward(k)
    \/ \E x \in Ctl \cup Conn : LinkBreaks(x)

(* The steps that move what the agent holds for it. *)
AgentSide ==
    \/ TransitionBegins \/ Registered \/ NoRegistration \/ OpenFails \/ ReconnectTimer
    \/ \E c \in Ctl : SendRegistration(c)
    \/ LoopReads \/ LoopGrant \/ LoopApplies \/ LoopNotifies
    \/ AgentStarts \/ AgentExits \/ AgentCrashes \/ AgentStops

(* The steps around them. *)
WorldSide == Tick \/ CliProvisions \/ OperatorRenewsCredential

agentCore == <<up, cap, loop, snap, grant, chain, tp>>
worldCore == <<now, cred, config>>
relayCore == <<auth, route, rel>>

USE DEF clock, budget, relayVars, netVars, agentVars, diskVars, connectorVars

-----------------------------------------------------------------------------
(***************************************************************************)
(* Who moves what                                                          *)
(***************************************************************************)
(* Every other step leaves alone what the invariant is about. *)
LEMMA Sides ==
    ASSUME [Next]_vars
    PROVE  RelaySide \/ AgentSide \/ WorldSide
           \/ UNCHANGED <<agentCore, worldCore, relayCore, toRelay>>
<1> USE DEF agentCore, worldCore, relayCore
<1> SUFFICES ASSUME ~RelaySide, ~AgentSide, ~WorldSide
             PROVE  UNCHANGED <<agentCore, worldCore, relayCore, toRelay>>
  OBVIOUS
<1>1. ASSUME NEW k \in Conn,
             \/ SendSettled(k) \/ HandleControlMessage(k) \/ SendAccept(k) \/ Accepted(k)
             \/ AcceptFails(k) \/ TunnelClosedAtAgent(k) \/ BrowserLeaves(k)
      PROVE  UNCHANGED <<agentCore, worldCore, relayCore, toRelay>>
  BY <1>1 DEF SendSettled, HandleControlMessage, SendAccept, Accepted, AcceptFails,
              TunnelClosedAtAgent, BrowserLeaves, DropControl
<1>2. CASE ControlClosedAtAgent
  BY <1>2 DEF ControlClosedAtAgent, DropControl
<1>3. CASE UNCHANGED vars
  BY <1>3 DEF vars
<1>4. CASE RelayStep
  BY <1>1, <1>4 DEF RelayStep, RelaySide
<1>5. CASE AgentStep
  BY <1>1, <1>2, <1>5 DEF AgentStep, AgentSide
<1>6. CASE Environment
  BY <1>1, <1>6 DEF Environment, RelaySide, AgentSide, WorldSide
<1>7. QED
  BY <1>3, <1>4, <1>5, <1>6 DEF Next

(* The relay and the network move nothing of the agent's, and install nothing but what
   was on its way. *)
LEMMA RelayMoves ==
    ASSUME Shapes, RelaySide
    PROVE  /\ UNCHANGED <<agentCore, worldCore>>
           /\ auth' \in {auth, NoCap} \cup {toRelay[c] : c \in Ctl}
           /\ toRelay' \in [Ctl -> Capabilities]
           /\ \A c \in Ctl : toRelay'[c] \in {toRelay[c], NoCap}
           /\ rel' \in [Conn -> {None, "pending", "setup", "active"}]
<1> DEFINE Moved == /\ UNCHANGED <<agentCore, worldCore>>
                    /\ auth' \in {auth, NoCap} \cup {toRelay[c] : c \in Ctl}
                    /\ toRelay' \in [Ctl -> Capabilities]
                    /\ \A c \in Ctl : toRelay'[c] \in {toRelay[c], NoCap}
                    /\ rel' \in [Conn -> {None, "pending", "setup", "active"}]
<1>a. NoCap \in Capabilities
  BY DEF NoCap, Capabilities
<1> USE DEF agentCore, worldCore, Prune
<1>b. toRelay \in [Ctl -> Capabilities] /\ rel \in [Conn -> {None, "pending", "setup", "active"}]
  BY DEF Shapes
<1>1. CASE ExpireRouteAuthorization
  BY <1>a, <1>b, <1>1 DEF ExpireRouteAuthorization
<1>2. CASE RelayRestarts
  BY <1>a, <1>b, <1>2 DEF RelayRestarts
<1>3. ASSUME NEW c \in Ctl, Register(c) PROVE Moved
  BY <1>a, <1>b, <1>3 DEF Register
<1>4. ASSUME NEW c \in Ctl, ControlClosedAtRelay(c) PROVE Moved
  BY <1>a, <1>b, <1>4 DEF ControlClosedAtRelay
<1>5. ASSUME NEW k \in Conn, PendingTimeout(k) \/ TunnelSetupFails(k) PROVE Moved
  BY <1>a, <1>b, <1>5 DEF PendingTimeout, TunnelSetupFails
<1>6. ASSUME NEW k \in Conn, AcceptTunnel(k) \/ TunnelReady(k) PROVE Moved
  BY <1>a, <1>b, <1>6 DEF AcceptTunnel, TunnelReady
<1>7. ASSUME NEW k \in Conn, BrowserClosedAtRelay(k) PROVE Moved
  BY <1>a, <1>b, <1>7 DEF BrowserClosedAtRelay
<1>8. ASSUME NEW k \in Conn, TunnelClosedAtRelay(k) PROVE Moved
  BY <1>a, <1>b, <1>8 DEF TunnelClosedAtRelay
<1>9. ASSUME NEW k \in Conn, Connect(k) PROVE Moved
  BY <1>a, <1>b, <1>9 DEF Connect
<1>10. ASSUME NEW k \in Conn, Forward(k) PROVE Moved
  BY <1>a, <1>b, <1>10 DEF Forward
<1>11. ASSUME NEW x \in Ctl \cup Conn, LinkBreaks(x) PROVE Moved
  BY <1>a, <1>b, <1>11 DEF LinkBreaks
<1>12. QED
  BY <1>1, <1>2, <1>3, <1>4, <1>5, <1>6, <1>7, <1>8, <1>9, <1>10, <1>11 DEF RelaySide

(* The agent moves nothing of the relay's. *)
LEMMA AgentMoves ==
    ASSUME AgentSide
    PROVE  UNCHANGED <<now, cred, relayCore>>
<1> USE DEF relayCore
<1>1. CASE TransitionBegins \/ Registered \/ NoRegistration \/ OpenFails \/ ReconnectTimer
  BY <1>1 DEF TransitionBegins, Registered, NoRegistration, OpenFails, ReconnectTimer
<1>2. ASSUME NEW c \in Ctl, SendRegistration(c) PROVE UNCHANGED <<now, cred, relayCore>>
  BY <1>2 DEF SendRegistration
<1>3. CASE LoopReads \/ LoopGrant \/ LoopApplies \/ LoopNotifies
  BY <1>3 DEF LoopReads, LoopGrant, LoopApplies, LoopNotifies
<1>4. CASE AgentStarts \/ AgentExits \/ AgentCrashes \/ AgentStops
  BY <1>4 DEF AgentStarts, AgentExits, AgentCrashes, AgentStops, ProcessEnds
<1>5. QED
  BY <1>1, <1>2, <1>3, <1>4 DEF AgentSide

-----------------------------------------------------------------------------
(***************************************************************************)
(* Shapes                                                                  *)
(***************************************************************************)
Transitions == [kind : Kinds, cand : Capabilities]

(* What the provisioner issues is a capability within its bounds. *)
LEMMA Issued ==
    ASSUME Shapes
    PROVE  /\ IssueProvisionedRouteCapability \in Capabilities
           /\ Granted(IssueProvisionedRouteCapability)
           /\ IssueProvisionedRouteCapability.exp = now + Life
              \/ IssueProvisionedRouteCapability.exp = cred
<1>1. now \in Nat /\ cred \in Nat /\ Life \in Nat
  BY DEF Shapes
<1>2. PICK e \in Nat : /\ e = IF now + Life < cred THEN now + Life ELSE cred
                      /\ IssueProvisionedRouteCapability = [iat |-> now, exp |-> e]
  BY <1>1 DEF IssueProvisionedRouteCapability
<1>3. e <= now + Life /\ e <= cred /\ (e = now + Life \/ e = cred)
  BY <1>1, <1>2
<1>4. QED
  BY <1>1, <1>2, <1>3 DEF Capabilities, Granted

(* A transition that ends leaves the rest of the chain, and what it hands on. *)
LEMMA SettleShapes ==
    ASSUME Shapes, tp # "idle", NEW ok \in BOOLEAN, Settle(ok)
    PROVE  /\ chain' \in Seq(Transitions) /\ tp' = "idle"
           /\ {snap', grant'} \subseteq Capabilities
<1>1. chain \in Seq(Transitions) /\ chain # << >>
  BY DEF Shapes, Transitions
<1>2. Tail(chain) \in Seq(Transitions)
  BY <1>1
<1>3. NoCap \in Capabilities
  BY DEF NoCap, Capabilities
<1>4. QED
  BY <1>2, <1>3 DEF Shapes, Settle, LoopEnds

LEMMA ShapesStep == Shapes /\ [Next]_vars => Shapes'
<1> SUFFICES ASSUME Shapes, [Next]_vars PROVE Shapes'
  OBVIOUS
<1>a. NoCap \in Capabilities
  BY DEF NoCap, Capabilities
<1>b. /\ chain \in Seq(Transitions) /\ toRelay \in [Ctl -> Capabilities]
      /\ {now, cred} \subseteq Nat /\ {auth, cap, snap, grant, config} \subseteq Capabilities
      /\ rel \in [Conn -> {None, "pending", "setup", "active"}]
      /\ tp # "idle" => chain # << >>
  BY DEF Shapes, Transitions
<1>c. SUFFICES
      /\ chain' \in Seq(Transitions) /\ toRelay' \in [Ctl -> Capabilities]
      /\ {now', cred'} \subseteq Nat /\ {auth', cap', snap', grant', config'} \subseteq Capabilities
      /\ rel' \in [Conn -> {None, "pending", "setup", "active"}]
      /\ tp' # "idle" => chain' # << >>
  BY DEF Shapes, Transitions
<1>1. CASE RelaySide
  BY <1>1, <1>a, <1>b, RelayMoves DEF agentCore, worldCore
<1>2. CASE WorldSide
  <2>1. CASE Tick
    BY <2>1, <1>b, SMTT(30) DEF Tick
  <2>2. CASE CliProvisions
    BY <2>2, <1>b, Issued DEF CliProvisions
  <2>3. CASE OperatorRenewsCredential
    BY <2>3, <1>b, SMTT(30) DEF OperatorRenewsCredential
  <2>4. QED
    BY <1>2, <2>1, <2>2, <2>3 DEF WorldSide
<1>3. CASE AgentSide
  <2>a. /\ {now', cred'} \subseteq Nat /\ auth' \in Capabilities
        /\ rel' \in [Conn -> {None, "pending", "setup", "active"}]
    BY <1>3, <1>b, AgentMoves DEF relayCore
  <2>1. CASE TransitionBegins
    <3>1. chain # << >> => Tail(chain) \in Seq(Transitions)
      BY <1>b
    <3>2. QED
      BY <2>1, <2>a, <3>1, <1>b DEF TransitionBegins
  <2>2. CASE Registered
    <3>1. Settle(TRUE) /\ tp # "idle" /\ UNCHANGED <<toRelay, config>>
      BY <2>2 DEF Registered
    <3>2. cap' \in Capabilities
      <4>1. chain # << >> => Head(chain) \in Transitions
        BY <1>b
      <4>2. QED
        BY <4>1, <2>2, <3>1, <1>b DEF Registered, Transitions
    <3>3. QED
      BY <2>a, <3>1, <3>2, <1>b, SettleShapes
  <2>3. CASE NoRegistration \/ OpenFails
    <3>1. Settle(FALSE) /\ tp # "idle" /\ UNCHANGED <<toRelay, config, cap>>
      BY <2>3 DEF NoRegistration, OpenFails
    <3>2. QED
      BY <2>a, <3>1, <1>b, SettleShapes
  <2>4. CASE ReconnectTimer
    <3>1. [kind |-> "reconnect", cand |-> NoCap] \in Transitions
      BY <1>a DEF Transitions, Kinds
    <3>2. chain' \in Seq(Transitions) /\ chain' # << >>
      BY <3>1, <2>4, <1>b, SMTT(30) DEF ReconnectTimer
    <3>3. QED
      BY <2>4, <2>a, <3>2, <1>b DEF ReconnectTimer
  <2>5. ASSUME NEW c \in Ctl, SendRegistration(c) PROVE
          /\ chain' \in Seq(Transitions) /\ toRelay' \in [Ctl -> Capabilities]
          /\ {cap', snap', grant', config'} \subseteq Capabilities
          /\ tp' # "idle" => chain' # << >>
    <3>1. chain # << >>
      BY <2>5, <1>b DEF SendRegistration
    <3>2. Head(chain) \in Transitions
      BY <3>1, <1>b
    <3>3. Head(chain).cand \in Capabilities
      BY <3>2 DEF Transitions
    <3>4. QED
      BY <2>5, <3>1, <3>3, <1>b DEF SendRegistration, AdoptedAfterSend
  <2>6. CASE LoopReads \/ LoopGrant \/ LoopApplies
    BY <2>6, <2>a, <1>a, <1>b, Issued DEF LoopReads, LoopGrant, LoopApplies, LoopEnds
  <2>7. CASE LoopNotifies
    <3>1. [kind |-> "rotate", cand |-> snap] \in Transitions
      BY <1>b DEF Transitions, Kinds
    <3>2. chain' \in Seq(Transitions) /\ (chain # << >> => chain' # << >>)
      <4>1. chain' = chain \/ chain' = Append(chain, [kind |-> "rotate", cand |-> snap])
        BY <2>7 DEF LoopNotifies
      <4>2. Append(chain, [kind |-> "rotate", cand |-> snap]) \in Seq(Transitions)
        BY <3>1, <1>b
      <4>3. Append(chain, [kind |-> "rotate", cand |-> snap]) # << >>
        BY <3>1, <1>b, SMTT(30)
      <4>4. QED
        BY <4>1, <4>2, <4>3, <1>b
    <3>3. QED
      <4>1. /\ {snap', grant'} \subseteq Capabilities /\ tp' = tp
            /\ UNCHANGED <<cap, config, toRelay>>
        BY <2>7, <1>a, <1>b DEF LoopNotifies, LoopEnds
      <4>2. QED
        BY <4>1, <2>a, <3>2, <1>b
  <2>8. CASE AgentStarts
    <3>1. [kind |-> "start", cand |-> NoCap] \in Transitions
      BY <1>a DEF Transitions, Kinds
    <3>2. chain' \in Seq(Transitions) /\ chain' # << >>
      BY <3>1, <2>8 DEF AgentStarts
    <3>3. QED
      BY <2>8, <2>a, <3>2, <1>b, Issued DEF AgentStarts
  <2>9. CASE AgentStops \/ AgentExits \/ AgentCrashes
    <3>1. CASE AgentStops
      BY <3>1, <2>a, <1>b DEF AgentStops
    <3>2. CASE ProcessEnds
      BY <3>2, <2>a, <1>a, <1>b DEF ProcessEnds, LoopEnds
    <3>3. QED
      BY <2>9, <3>1, <3>2 DEF AgentExits, AgentCrashes
  <2>10. QED
    BY <1>3, <2>a, <2>1, <2>2, <2>3, <2>4, <2>5, <2>6, <2>7, <2>8, <2>9 DEF AgentSide
<1>4. CASE UNCHANGED <<agentCore, worldCore, relayCore, toRelay>>
  BY <1>4, <1>b DEF agentCore, worldCore, relayCore
<1>5. QED
  BY <1>1, <1>2, <1>3, <1>4, Sides

-----------------------------------------------------------------------------
(***************************************************************************)
(* The chain of transitions                                                *)
(***************************************************************************)
(* What the loop, the service and the connector know of each other. *)
LEMMA ChainTail ==
    ASSUME chain \in Seq(Transitions), chain # << >>
    PROVE  /\ Len(Tail(chain)) = Len(chain) - 1 /\ Len(chain) \in Nat
           /\ \A i \in 1 .. Len(Tail(chain)) :
                Tail(chain)[i] = chain[i + 1] /\ i + 1 \in 1 .. Len(chain)
           /\ Head(chain) = chain[1] /\ 1 \in 1 .. Len(chain)
OBVIOUS

LEMMA ChainAppend ==
    ASSUME chain \in Seq(Transitions), NEW t \in Transitions
    PROVE  /\ Len(Append(chain, t)) = Len(chain) + 1 /\ Len(chain) \in Nat
           /\ \A i \in 1 .. Len(chain) : Append(chain, t)[i] = chain[i]
           /\ Append(chain, t)[Len(chain) + 1] = t
           /\ \A i \in 1 .. Len(chain) + 1 : i \in 1 .. Len(chain) \/ i = Len(chain) + 1
OBVIOUS

(* The transition that runs is a rotation to what the loop reads, a reconnection, or the
   start of a service that does nothing else. *)
LEMMA Running ==
    ASSUME Shapes, ChainSound, chain # << >>
    PROVE  /\ Head(chain).kind = "rotate" => loop = "rotating" /\ Head(chain).cand = snap
           /\ Head(chain).kind # "rotate" => Head(chain).cand = NoCap
           /\ Head(chain).kind = "start" => up = "starting" /\ Len(chain) = 1
           /\ Head(chain).kind = "rotate" =>
                \A i \in 1 .. Len(Tail(chain)) : Tail(chain)[i].kind # "rotate"
<1>1. chain \in Seq(Transitions)
  BY DEF Shapes, Transitions
<1>2. QED
  BY <1>1, ChainTail, SMTT(30) DEF ChainSound

(* A chain loses its head, and everything else stays. *)
LEMMA ChainDrops ==
    ASSUME Shapes, ChainSound, chain # << >>, chain' = Tail(chain),
           Head(chain).kind # "rotate" => UNCHANGED <<loop, snap>>,
           Head(chain).kind # "start" => UNCHANGED up
    PROVE  ChainSound'
<1>1. chain \in Seq(Transitions)
  BY DEF Shapes, Transitions
<1>2. SUFFICES ASSUME NEW i \in 1 .. Len(chain')
               PROVE  /\ IF chain'[i].kind = "rotate"
                         THEN loop' = "rotating" /\ chain'[i].cand = snap'
                         ELSE chain'[i].cand = NoCap
                      /\ chain'[i].kind = "start" => up' = "starting" /\ Len(chain') = 1
                      /\ \A j \in 1 .. Len(chain') :
                           chain'[i].kind = "rotate" /\ chain'[j].kind = "rotate" => i = j
  BY DEF ChainSound, NoCap
<1>3. /\ chain'[i] = chain[i + 1] /\ i + 1 \in 1 .. Len(chain) /\ i \in Nat
      /\ Len(chain') = Len(chain) - 1
  BY <1>1, ChainTail
<1>4. \A j \in 1 .. Len(chain') : chain'[j] = chain[j + 1] /\ j + 1 \in 1 .. Len(chain) /\ j \in Nat
  BY <1>1, ChainTail
<1>5. Len(chain) > 1 /\ Len(chain) \in Nat
  BY <1>1, <1>3, ChainTail
<1>6. chain[i + 1].kind # "start" /\ Head(chain).kind # "start"
  BY <1>3, <1>5, Running, SMTT(30) DEF ChainSound
<1>7. /\ IF chain'[i].kind = "rotate"
         THEN loop' = "rotating" /\ chain'[i].cand = snap'
         ELSE chain'[i].cand = NoCap
  BY <1>3, Running DEF ChainSound
<1>8. \A j \in 1 .. Len(chain') :
        chain'[i].kind = "rotate" /\ chain'[j].kind = "rotate" => i = j
  <2>1. SUFFICES ASSUME NEW j \in 1 .. Len(chain'), chain'[i].kind = "rotate", chain'[j].kind = "rotate"
                 PROVE  i = j
    OBVIOUS
  <2>2. i + 1 = j + 1
    BY <2>1, <1>3, <1>4 DEF ChainSound
  <2>3. QED
    BY <2>2, <1>3, <1>4, SMTT(30)
<1>9. QED
  BY <1>3, <1>6, <1>7, <1>8

(* A transition joins the end. *)
LEMMA ChainGrows ==
    ASSUME Shapes, ChainSound, up # "starting", UNCHANGED up,
           NEW t \in Transitions, chain' = Append(chain, t), t.kind # "start",
           IF t.kind = "rotate" THEN loop # "rotating" /\ loop' = "rotating" /\ t.cand = snap'
           ELSE UNCHANGED <<loop, snap>> /\ t.cand = NoCap
    PROVE  ChainSound'
<1>1. chain \in Seq(Transitions)
  BY DEF Shapes, Transitions
<1>2. \A i \in 1 .. Len(chain) : chain'[i] = chain[i] /\ chain[i].kind # "start"
  BY <1>1, ChainAppend DEF ChainSound
<1>3. /\ chain'[Len(chain) + 1] = t /\ Len(chain') = Len(chain) + 1 /\ Len(chain) \in Nat
      /\ \A i \in 1 .. Len(chain') : i \in 1 .. Len(chain) \/ i = Len(chain) + 1
  BY <1>1, ChainAppend
<1>4. CASE t.kind = "rotate"
  <2>1. \A i \in 1 .. Len(chain) : chain[i].kind # "rotate" /\ chain[i].cand = NoCap
    BY <1>4 DEF ChainSound
  <2>2. QED
    BY <1>2, <1>3, <1>4, <2>1, SMTT(30) DEF ChainSound, NoCap
<1>5. CASE t.kind # "rotate"
  BY <1>2, <1>3, <1>5 DEF ChainSound, NoCap
<1>6. QED
  BY <1>4, <1>5

(* Nothing about the chain changes. *)
LEMMA ChainStays ==
    ASSUME ChainSound, UNCHANGED chain,
           loop = "rotating" => UNCHANGED <<loop, snap>>,
           up = "starting" => UNCHANGED up
    PROVE  ChainSound'
BY DEF ChainSound, NoCap

LEMMA ChainStep == Shapes /\ LoopAhead /\ ChainSound /\ [Next]_vars => ChainSound'
<1> SUFFICES ASSUME Shapes, LoopAhead, ChainSound, [Next]_vars PROVE ChainSound'
  OBVIOUS
<1>a. chain \in Seq(Transitions)
  BY DEF Shapes, Transitions
<1>b. loop # "idle" => up \in {"up", "stopping"}
  BY DEF LoopAhead
<1>c. ASSUME NEW ok \in BOOLEAN, Settle(ok), tp # "idle" PROVE ChainSound'
  BY <1>c, ChainDrops DEF Settle, Shapes
<1>1. CASE RelaySide
  BY <1>1, RelayMoves, ChainStays DEF agentCore
<1>2. CASE WorldSide
  BY <1>2, ChainStays DEF WorldSide, Tick, CliProvisions, OperatorRenewsCredential
<1>3. CASE AgentSide
  <2>1. CASE TransitionBegins
    <3>1. UNCHANGED <<loop, snap, up>> /\ chain # << >> /\ (chain' = Tail(chain) \/ chain' = chain)
      BY <2>1 DEF TransitionBegins
    <3>2. QED
      BY <3>1, ChainDrops, ChainStays
  <2>2. CASE Registered
    BY <2>2, <1>c DEF Registered
  <2>3. CASE NoRegistration \/ OpenFails
    BY <2>3, <1>c DEF NoRegistration, OpenFails
  <2>4. CASE ReconnectTimer
    <3>1. [kind |-> "reconnect", cand |-> NoCap] \in Transitions
      BY DEF Transitions, Kinds, NoCap, Capabilities
    <3>2. QED
      BY <2>4, <3>1, ChainGrows DEF ReconnectTimer
  <2>5. ASSUME NEW c \in Ctl, SendRegistration(c) PROVE ChainSound'
    BY <2>5, ChainStays DEF SendRegistration
  <2>6. CASE LoopReads \/ LoopGrant \/ LoopApplies
    BY <2>6, ChainStays DEF LoopReads, LoopGrant, LoopApplies
  <2>7. CASE LoopNotifies
    <3>1. CASE UNCHANGED chain
      BY <2>7, <3>1, ChainStays DEF LoopNotifies
    <3>2. CASE ~ UNCHANGED chain
      <4>1. [kind |-> "rotate", cand |-> snap] \in Transitions
        BY DEF Transitions, Kinds, Shapes
      <4>2. /\ chain' = Append(chain, [kind |-> "rotate", cand |-> snap])
            /\ up = "up" /\ UNCHANGED <<up, snap>> /\ loop = "notifying" /\ loop' = "rotating"
        BY <2>7, <3>2 DEF LoopNotifies
      <4>3. QED
        BY <4>1, <4>2, ChainGrows
    <3>3. QED
      BY <3>1, <3>2
  <2>8. CASE AgentStarts
    <3>1. chain' = <<[kind |-> "start", cand |-> NoCap]>> /\ up' = "starting"
      BY <2>8 DEF AgentStarts
    <3>2. \A i \in 1 .. Len(chain') : chain'[i] = [kind |-> "start", cand |-> NoCap]
      BY <3>1
    <3>3. QED
      BY <3>1, <3>2 DEF ChainSound, NoCap
  <2>9. CASE AgentStops
    BY <2>9, ChainStays DEF AgentStops
  <2>10. CASE AgentExits \/ AgentCrashes
    <3>1. chain' = << >>
      BY <2>10 DEF AgentExits, AgentCrashes, ProcessEnds
    <3>2. QED
      BY <3>1 DEF ChainSound
  <2>11. QED
    BY <1>3, <2>1, <2>2, <2>3, <2>4, <2>5, <2>6, <2>7, <2>8, <2>9, <2>10 DEF AgentSide
<1>4. CASE UNCHANGED <<agentCore, worldCore, relayCore, toRelay>>
  BY <1>4, ChainStays DEF agentCore
<1>5. QED
  BY <1>1, <1>2, <1>3, <1>4, Sides

-----------------------------------------------------------------------------
(***************************************************************************)
(* What the agent has reached                                              *)
(***************************************************************************)
(* A capability stays reached while neither the file nor the connector moves back. *)
LEMMA StaysReached ==
    ASSUME Shapes, Shapes', NEW c \in Capabilities, Reached(c), config.exp <= config'.exp,
           up' # "down" => \/ up # "down" /\ cap.exp <= cap'.exp
                           \/ cap' = config'
    PROVE  c.exp <= config'.exp /\ (up' # "down" => c.exp <= cap'.exp)
<1>1. /\ c.exp \in Nat /\ config.exp \in Nat /\ config'.exp \in Nat /\ cap.exp \in Nat
      /\ cap'.exp \in Nat
  BY DEF Shapes, Capabilities
<1>2. QED
  BY <1>1 DEF Reached

(* The file never moves back, and is bounded by what the provisioner may grant; nor does a
   connector that keeps running, and one that starts takes the file. *)
LEMMA NoneMovesBack ==
    ASSUME RouteInv, Shapes', [Next]_vars
    PROVE  /\ config.exp <= config'.exp
           /\ up' # "down" => \/ up # "down" /\ cap.exp <= cap'.exp
                              \/ cap' = config'
           /\ Legacy(config') \/ Granted(config)'
<1>a. Shapes /\ (Legacy(config) \/ Granted(config)) /\ LoopAhead /\ ChainSound
  BY DEF RouteInv
<1>b. /\ {now, cred, config.exp, cap.exp, snap.exp, grant.exp} \subseteq Nat
      /\ {now', cred', config'.exp, cap'.exp} \subseteq Nat /\ Life \in Nat /\ Life > 0
  BY <1>a DEF Shapes, Capabilities
<1>c. ASSUME UNCHANGED config, now <= now', cred <= cred'
      PROVE  config.exp <= config'.exp /\ (Legacy(config') \/ Granted(config)')
  BY <1>a, <1>b, <1>c DEF Legacy, Granted
<1>1. CASE RelaySide
  BY <1>1, <1>a, <1>b, <1>c, RelayMoves DEF agentCore, worldCore
<1>2. CASE WorldSide
  <2>1. CASE Tick
    BY <2>1, <1>b, <1>c DEF Tick
  <2>2. CASE CliProvisions
    <3>1. /\ UNCHANGED <<now, cred, cap, up>> /\ config' = IssueProvisionedRouteCapability
          /\ Granted(config)
      BY <2>2, <1>a DEF CliProvisions
    <3>2. Granted(config') /\ (config'.exp = now + Life \/ config'.exp = cred)
      BY <3>1, <1>a, Issued
    <3>3. QED
      BY <3>1, <3>2, <1>b DEF Granted
  <2>3. CASE OperatorRenewsCredential
    BY <2>3, <1>b, <1>c DEF OperatorRenewsCredential
  <2>4. QED
    BY <1>2, <2>1, <2>2, <2>3 DEF WorldSide
<1>3. CASE AgentSide
  <2>a. UNCHANGED <<now, cred>>
    BY <1>3, AgentMoves
  <2>1. CASE TransitionBegins \/ ReconnectTimer \/ LoopReads \/ LoopGrant \/ LoopNotifies \/ AgentStops
    <3>1. UNCHANGED <<config, cap>> /\ (up' # "down" => up # "down")
      BY <2>1 DEF TransitionBegins, ReconnectTimer, LoopReads, LoopGrant, LoopNotifies, AgentStops
    <3>2. QED
      BY <2>a, <3>1, <1>b, <1>c
  <2>2. CASE Registered
    <3>1. tp # "idle" /\ chain # << >>
      BY <2>2, <1>a DEF Registered, Shapes
    <3>2. UNCHANGED config /\ (up' # "down" => up # "down" \/ Head(chain).kind = "start")
      BY <2>2 DEF Registered, Settle
    <3>3. Head(chain).kind = "start" => up # "down"
      BY <3>1, <1>a, Running
    <3>4. cap.exp <= cap'.exp
      <4>1. cap' = cap \/ (Head(chain).cand # NoCap /\ cap' = Head(chain).cand)
        BY <2>2 DEF Registered
      <4>2. Head(chain).cand # NoCap => loop # "idle" /\ Head(chain).cand = snap
        BY <3>1, <1>a, Running
      <4>3. loop # "idle" => cap.exp <= snap.exp
        BY <1>a DEF LoopAhead
      <4>4. QED
        BY <4>1, <4>2, <4>3, <1>b
    <3>5. QED
      BY <2>a, <3>2, <3>3, <3>4, <1>b, <1>c
  <2>3. CASE NoRegistration \/ OpenFails
    <3>1. UNCHANGED <<config, cap>> /\ (up' # "down" => up # "down")
      BY <2>3 DEF NoRegistration, OpenFails, Settle
    <3>2. QED
      BY <2>a, <3>1, <1>b, <1>c
  <2>4. ASSUME NEW c \in Ctl, SendRegistration(c)
        PROVE  UNCHANGED <<config, up>> /\ cap.exp <= cap'.exp
    <3>1. tp # "idle" /\ chain # << >>
      BY <2>4, <1>a DEF SendRegistration, Shapes
    <3>2. cap' = cap \/ (Head(chain).cand # NoCap /\ cap' = Head(chain).cand)
      BY <2>4 DEF SendRegistration, AdoptedAfterSend
    <3>3. Head(chain).cand # NoCap => loop # "idle" /\ Head(chain).cand = snap
      BY <3>1, <1>a, Running
    <3>4. loop # "idle" => cap.exp <= snap.exp
      BY <1>a DEF LoopAhead
    <3>5. QED
      BY <2>4, <3>2, <3>3, <3>4, <1>b DEF SendRegistration
  <2>5. CASE LoopApplies
    <3>1. /\ UNCHANGED <<cap, up>> /\ (config' = config \/ (config = snap /\ config' = grant))
          /\ snap.exp < grant.exp /\ Granted(grant)
      BY <2>5, <1>a DEF LoopApplies, LoopAhead, Unchanged
    <3>2. QED
      BY <2>a, <3>1, <1>b, <1>c DEF Granted
  <2>6. CASE AgentStarts
    <3>1. cap' = config'
      BY <2>6 DEF AgentStarts
    <3>2. CASE UNCHANGED config
      BY <2>a, <3>1, <3>2, <1>b, <1>c
    <3>3. CASE ~ UNCHANGED config
      <4>1. config' = IssueProvisionedRouteCapability /\ config.exp <= now /\ cred > now
        BY <2>6, <3>3, <1>b DEF AgentStarts, Verified
      <4>2. Granted(config') /\ (config'.exp = now + Life \/ config'.exp = cred)
        BY <4>1, <1>a, Issued
      <4>3. QED
        BY <2>a, <3>1, <4>1, <4>2, <1>b DEF Granted
    <3>4. QED
      BY <3>2, <3>3
  <2>7. CASE AgentExits \/ AgentCrashes
    <3>1. UNCHANGED config /\ up' = "down"
      BY <2>7 DEF AgentExits, AgentCrashes, ProcessEnds
    <3>2. QED
      BY <2>a, <3>1, <1>b, <1>c
  <2>8. QED
    BY <1>3, <2>a, <2>1, <2>2, <2>3, <2>4, <2>5, <2>6, <2>7, <1>b, <1>c DEF AgentSide
<1>4. CASE UNCHANGED <<agentCore, worldCore, relayCore, toRelay>>
  BY <1>4, <1>b, <1>c DEF agentCore, worldCore
<1>5. QED
  BY <1>1, <1>2, <1>3, <1>4, Sides

-----------------------------------------------------------------------------
LEMMA LoopStep == RouteInv /\ Shapes' /\ [Next]_vars => LoopAhead'
<1> SUFFICES ASSUME RouteInv, Shapes', [Next]_vars PROVE LoopAhead'
  OBVIOUS
<1>a. Shapes /\ LoopAhead /\ ChainSound
  BY DEF RouteInv
<1>b. /\ {now, cred, config.exp, cap.exp, snap.exp, grant.exp} \subseteq Nat
      /\ {now', cred', config'.exp, cap'.exp, snap'.exp, grant'.exp} \subseteq Nat
      /\ Life \in Nat
  BY <1>a DEF Shapes, Capabilities
<1>c. config.exp <= config'.exp
  BY NoneMovesBack
<1>d. ASSUME UNCHANGED agentCore, now <= now', cred <= cred' PROVE LoopAhead'
  <2>1. UNCHANGED <<up, cap, loop, snap, grant, chain>>
    BY <1>d DEF agentCore
  <2>2. Granted(grant) => Granted(grant)'
    BY <1>b, <1>d, <2>1 DEF Granted
  <2>3. /\ cap.exp <= config.exp => cap.exp <= config'.exp
        /\ snap.exp <= config.exp => snap.exp <= config'.exp
    BY <1>b, <1>c
  <2>4. QED
    BY <2>1, <2>2, <2>3, <1>a DEF LoopAhead
<1>1. CASE RelaySide
  BY <1>1, <1>a, <1>b, <1>d, RelayMoves DEF worldCore
<1>2. CASE WorldSide
  BY <1>2, <1>b, <1>d DEF WorldSide, Tick, CliProvisions, OperatorRenewsCredential, agentCore
<1>3. CASE AgentSide
  <2>a. UNCHANGED <<now, cred>>
    BY <1>3, AgentMoves
  (* A transition ends that moved the connector only if it is the loop's. *)
  <2>b. ASSUME NEW ok \in BOOLEAN, Settle(ok), tp # "idle", UNCHANGED config,
               cap' = cap \/ (cap' = snap /\ Head(chain).kind = "rotate")
        PROVE  LoopAhead'
    <3>1. chain # << >> /\ chain \in Seq(Transitions)
      BY <2>b, <1>a DEF Shapes, Transitions
    <3>2. CASE Head(chain).kind = "rotate"
      <4>1. /\ loop' = "idle" /\ up' = up /\ loop = "rotating" /\ up # "down"
        BY <2>b, <3>1, <3>2, <1>a, Running DEF Settle, LoopEnds, LoopAhead
      <4>2. QED
        BY <2>b, <4>1, <1>a, <1>b DEF LoopAhead
    <3>3. CASE Head(chain).kind # "rotate"
      <4>1. UNCHANGED <<loop, snap, grant, cap>> /\ chain' = Tail(chain) /\ up # "down"
        BY <2>b, <3>1, <3>3, <1>a DEF Settle, LoopAhead
      <4>2. CASE Head(chain).kind = "start"
        <5>1. up = "starting" /\ Len(chain) = 1
          BY <3>1, <4>2, <1>a, Running
        <5>2. chain' = << >>
          BY <3>1, <4>1, <5>1, SMTT(30)
        <5>3. loop = "idle"
          BY <5>1, <1>a DEF LoopAhead
        <5>4. QED
          BY <2>b, <4>1, <5>2, <5>3, <1>a DEF LoopAhead
      <4>3. CASE Head(chain).kind # "start"
        <5>1. up' = up
          BY <2>b, <4>3 DEF Settle
        <5>2. QED
          BY <2>a, <2>b, <4>1, <5>1, <1>a DEF LoopAhead, Granted
      <4>4. QED
        BY <4>2, <4>3
    <3>4. QED
      BY <3>2, <3>3
  <2>1. CASE TransitionBegins
    <3>1. UNCHANGED <<config, up, cap, loop, snap, grant>> /\ chain # << >>
      BY <2>1 DEF TransitionBegins
    <3>2. QED
      BY <2>a, <3>1, <1>a DEF LoopAhead, Granted
  <2>2. CASE Registered
    <3>1. Settle(TRUE) /\ tp # "idle" /\ UNCHANGED config /\ chain # << >>
      BY <2>2, <1>a DEF Registered, Shapes
    <3>2. cap' = cap \/ (Head(chain).cand # NoCap /\ cap' = Head(chain).cand)
      BY <2>2 DEF Registered
    <3>3. cap' = cap \/ (cap' = snap /\ Head(chain).kind = "rotate")
      BY <3>1, <3>2, <1>a, Running
    <3>4. QED
      BY <2>b, <3>1, <3>3
  <2>3. CASE NoRegistration \/ OpenFails
    BY <2>3, <2>b DEF NoRegistration, OpenFails
  <2>4. CASE ReconnectTimer
    <3>1. UNCHANGED <<config, up, cap, loop, snap, grant>> /\ up # "down"
      BY <2>4 DEF ReconnectTimer
    <3>2. QED
      BY <2>a, <3>1, <1>a DEF LoopAhead, Granted
  <2>5. ASSUME NEW c \in Ctl, SendRegistration(c) PROVE LoopAhead'
    <3>1. /\ chain # << >> /\ UNCHANGED <<config, up, loop, snap, grant, chain>>
          /\ cap' = cap \/ (Head(chain).cand # NoCap /\ cap' = Head(chain).cand)
      BY <2>5, <1>a DEF SendRegistration, AdoptedAfterSend, Shapes
    <3>2. cap' = cap \/ (cap' = snap /\ loop # "idle")
      BY <3>1, <1>a, Running
    <3>3. QED
      BY <2>a, <3>1, <3>2, <1>a, <1>b, SMTT(30) DEF LoopAhead, Granted
  <2>6. CASE LoopReads
    BY <2>6, <2>a, <1>a, <1>b DEF LoopReads, LoopAhead
  <2>7. CASE LoopGrant
    <3>1. UNCHANGED <<config, up, cap, chain>> /\ loop = "requesting"
      BY <2>7 DEF LoopGrant
    <3>2. CASE loop' = "idle"
      BY <3>1, <3>2, <1>a DEF LoopAhead
    <3>3. CASE loop' # "idle"
      <4>1. /\ UNCHANGED snap /\ loop' \in {"applying", "notifying"}
            /\ loop' = "applying" => /\ grant' = IssueProvisionedRouteCapability
                                     /\ grant'.exp > snap.exp
        BY <2>7, <3>3 DEF LoopGrant, LoopEnds
      <4>2. loop' = "applying" => Granted(grant)'
        BY <2>a, <4>1, <1>a, Issued DEF Granted
      <4>3. QED
        BY <3>1, <4>1, <4>2, <1>a, <1>b DEF LoopAhead
    <3>4. QED
      BY <3>2, <3>3
  <2>8. CASE LoopApplies
    <3>1. UNCHANGED <<up, cap, chain>> /\ loop = "applying"
      BY <2>8 DEF LoopApplies
    <3>a. /\ cap.exp <= config.exp /\ cap.exp <= snap.exp /\ snap.exp < grant.exp
          /\ up \in {"up", "stopping"}
      BY <3>1, <1>a DEF LoopAhead
    <3>b. cap.exp <= config'.exp /\ cap.exp <= grant.exp
      BY <3>a, <1>b, <1>c
    <3>2. CASE loop' = "idle"
      BY <3>1, <3>2, <3>a, <3>b DEF LoopAhead
    <3>3. CASE loop' # "idle"
      <4>1. loop' = "notifying" /\ snap' = grant /\ config' = grant
        BY <2>8, <3>3 DEF LoopApplies, LoopEnds
      <4>2. config'.exp <= config'.exp
        BY <1>b
      <4>3. QED
        BY <3>1, <3>a, <3>b, <4>1, <4>2 DEF LoopAhead
    <3>4. QED
      BY <3>2, <3>3
  <2>9. CASE LoopNotifies
    <3>1. UNCHANGED <<up, cap, config>> /\ loop = "notifying" /\ up # "down"
      BY <2>9, <1>a DEF LoopNotifies, LoopAhead
    <3>2. loop' = "idle" \/ (loop' = "rotating" /\ UNCHANGED snap)
      BY <2>9 DEF LoopNotifies, LoopEnds
    <3>3. QED
      BY <3>1, <3>2, <1>a DEF LoopAhead
  <2>10. CASE AgentStarts
    <3>1. cap' = config' /\ up' = "starting" /\ up = "down" /\ loop' = loop
      BY <2>10 DEF AgentStarts
    <3>2. loop = "idle"
      BY <3>1, <1>a DEF LoopAhead
    <3>3. QED
      BY <3>1, <3>2, <1>b DEF LoopAhead
  <2>11. CASE AgentStops
    <3>1. up = "up" /\ up' = "stopping" /\ UNCHANGED <<cap, config, loop, snap, grant, chain>>
      BY <2>11 DEF AgentStops
    <3>2. QED
      BY <2>a, <3>1, <1>a DEF LoopAhead, Granted
  <2>12. CASE AgentExits \/ AgentCrashes
    <3>1. up' = "down" /\ loop' = "idle" /\ chain' = << >>
      BY <2>12 DEF AgentExits, AgentCrashes, ProcessEnds, LoopEnds
    <3>2. QED
      BY <3>1 DEF LoopAhead
  <2>13. QED
    BY <1>3, <2>1, <2>2, <2>3, <2>4, <2>5, <2>6, <2>7, <2>8, <2>9, <2>10, <2>11, <2>12
       DEF AgentSide
<1>4. CASE UNCHANGED <<agentCore, worldCore, relayCore, toRelay>>
  BY <1>4, <1>b, <1>d DEF worldCore
<1>5. QED
  BY <1>1, <1>2, <1>3, <1>4, Sides

(* Neither what the relay has installed nor what is on its way to it is ahead. *)
LEMMA ReachedStep ==
    ASSUME RouteInv, Shapes', LoopAhead', [Next]_vars
    PROVE  Reached(auth)' /\ \A c \in Ctl : Reached(toRelay[c])'
<1>a. /\ Shapes /\ ChainSound /\ LoopAhead /\ Reached(auth) /\ \A c \in Ctl : Reached(toRelay[c])
      /\ auth \in Capabilities /\ toRelay \in [Ctl -> Capabilities]
  BY DEF RouteInv, Shapes
<1>b. NoCap \in Capabilities /\ Reached(NoCap)
  BY <1>a DEF NoCap, Capabilities, Reached, Shapes
<1>c. \A c \in Capabilities :
        Reached(c) => c.exp <= config'.exp /\ (up' # "down" => c.exp <= cap'.exp)
  BY <1>a, NoneMovesBack, StaysReached
<1>1. CASE RelaySide
  BY <1>1, <1>a, <1>b, <1>c, RelayMoves DEF Reached
<1>2. CASE WorldSide
  BY <1>2, <1>a, <1>c DEF WorldSide, Tick, CliProvisions, OperatorRenewsCredential, Reached
<1>3. CASE AgentSide
  <2>a. UNCHANGED auth
    BY <1>3, AgentMoves DEF relayCore
  <2>1. ASSUME UNCHANGED toRelay
        PROVE  Reached(auth)' /\ \A c \in Ctl : Reached(toRelay[c])'
    BY <2>a, <2>1, <1>a, <1>c DEF Reached
  <2>2. ASSUME NEW c \in Ctl, SendRegistration(c)
        PROVE  Reached(auth)' /\ \A d \in Ctl : Reached(toRelay[d])'
    <3>1. /\ cap' = (IF Head(chain).cand = NoCap THEN cap ELSE Head(chain).cand)
          /\ toRelay' = [toRelay EXCEPT ![c] = cap'] /\ chain' = chain /\ tp # "idle"
      BY <2>2 DEF SendRegistration, AdoptedAfterSend
    <3>2. up' # "down"
      BY <3>1, <1>a DEF LoopAhead, Shapes
    <3>3. cap'.exp <= config'.exp /\ cap'.exp \in Nat
      BY <3>2 DEF LoopAhead, Shapes, Capabilities
    <3>4. ASSUME NEW d \in Ctl PROVE Reached(toRelay[d])'
      BY <3>1, <3>3, <1>a, <1>c DEF Reached
    <3>5. QED
      BY <2>a, <3>4, <1>a, <1>c DEF Reached
  <2>3. CASE AgentStarts \/ AgentExits \/ AgentCrashes \/ AgentStops
    BY <2>1, <2>3 DEF AgentStarts, AgentExits, AgentCrashes, AgentStops, ProcessEnds
  <2>4. CASE LoopReads \/ LoopGrant \/ LoopApplies \/ LoopNotifies
    BY <2>1, <2>4 DEF LoopReads, LoopGrant, LoopApplies, LoopNotifies
  <2>5. CASE TransitionBegins \/ Registered \/ NoRegistration \/ OpenFails \/ ReconnectTimer
    BY <2>1, <2>5 DEF TransitionBegins, Registered, NoRegistration, OpenFails, ReconnectTimer
  <2>6. QED
    BY <1>3, <2>2, <2>3, <2>4, <2>5 DEF AgentSide
<1>4. CASE UNCHANGED <<agentCore, worldCore, relayCore, toRelay>>
  BY <1>4, <1>a DEF agentCore, worldCore, relayCore, Reached
<1>5. QED
  BY <1>1, <1>2, <1>3, <1>4, Sides

-----------------------------------------------------------------------------
(***************************************************************************)
(* What the relay holds                                                    *)
(***************************************************************************)
Held == {k \in Conn : rel[k] # None}

(* An authorization is released only when nothing is left under it. *)
LEMMA PruneReleases ==
    ASSUME LiveIsAuthorized, route' = route, NEW c \in {auth, Prune(rel', route)}, auth' = c,
           \A k \in Conn : rel'[k] # None => rel[k] # None
    PROVE  LiveIsAuthorized'
BY DEF LiveIsAuthorized, Prune

LEMMA LiveStep == Shapes /\ LiveIsAuthorized /\ [Next]_vars => LiveIsAuthorized'
<1> SUFFICES ASSUME Shapes, LiveIsAuthorized, [Next]_vars PROVE LiveIsAuthorized'
  OBVIOUS
<1>a. rel \in [Conn -> {None, "pending", "setup", "active"}]
  BY DEF Shapes
<1>1. CASE RelaySide
  <2>1. CASE ExpireRouteAuthorization
    <3>1. route' = None /\ \A k \in Conn : rel'[k] = None
      BY <2>1, <1>a DEF ExpireRouteAuthorization, EndedByExpiration
    <3>2. QED
      BY <3>1 DEF LiveIsAuthorized
  <2>2. CASE RelayRestarts
    BY <2>2 DEF RelayRestarts, LiveIsAuthorized
  <2>3. ASSUME NEW c \in Ctl, Register(c) PROVE LiveIsAuthorized'
    <3>1. \/ auth' # NoCap
          \/ UNCHANGED <<auth, route, rel>>
      BY <2>3 DEF Register, NoCap
    <3>2. QED
      BY <3>1 DEF LiveIsAuthorized, NoCap
  <2>4. ASSUME NEW c \in Ctl, ControlClosedAtRelay(c) PROVE LiveIsAuthorized'
    BY <2>4 DEF ControlClosedAtRelay, RouteAfterClose, LiveIsAuthorized, Prune, NoCap
  <2>5. ASSUME NEW k \in Conn, PendingTimeout(k) \/ TunnelSetupFails(k) PROVE LiveIsAuthorized'
    BY <2>5, <1>a, PruneReleases DEF PendingTimeout, TunnelSetupFails
  <2>6. ASSUME NEW k \in Conn, AcceptTunnel(k) \/ TunnelReady(k) PROVE LiveIsAuthorized'
    <3>1. UNCHANGED <<auth, route>> /\ \A j \in Conn : rel'[j] # None => rel[j] # None
      BY <2>6, <1>a DEF AcceptTunnel, TunnelReady, None
    <3>2. QED
      BY <3>1, PruneReleases
  <2>7. ASSUME NEW k \in Conn, BrowserClosedAtRelay(k) PROVE LiveIsAuthorized'
    BY <2>7, <1>a, PruneReleases DEF BrowserClosedAtRelay
  <2>8. ASSUME NEW k \in Conn, TunnelClosedAtRelay(k) PROVE LiveIsAuthorized'
    BY <2>8, <1>a, PruneReleases DEF TunnelClosedAtRelay
  <2>9. ASSUME NEW k \in Conn, Connect(k) PROVE LiveIsAuthorized'
    <3>1. UNCHANGED <<auth, route>> /\ (route = None => rel' = rel)
      BY <2>9 DEF Connect
    <3>2. QED
      BY <3>1 DEF LiveIsAuthorized, NoCap
  <2>10. ASSUME NEW k \in Conn, Forward(k) PROVE LiveIsAuthorized'
    BY <2>10, <1>a, PruneReleases DEF Forward
  <2>11. ASSUME NEW x \in Ctl \cup Conn, LinkBreaks(x) PROVE LiveIsAuthorized'
    BY <2>11 DEF LinkBreaks, LiveIsAuthorized, NoCap
  <2>12. QED
    BY <1>1, <2>1, <2>2, <2>3, <2>4, <2>5, <2>6, <2>7, <2>8, <2>9, <2>10, <2>11 DEF RelaySide
<1>2. CASE UNCHANGED relayCore
  BY <1>2 DEF relayCore, LiveIsAuthorized, NoCap
<1>3. QED
  BY <1>1, <1>2, AgentMoves, Sides DEF WorldSide, Tick, CliProvisions,
     OperatorRenewsCredential, relayCore

(* Fewer connections are no more load. *)
LEMMA LessHeld ==
    ASSUME LoadKept, Held' \subseteq Held
    PROVE  LoadKept'
<1>1. IsFiniteSet(Held)
  BY FS_Subset DEF Held
<1>2. /\ IsFiniteSet(Held') /\ Cardinality(Held') <= Cardinality(Held)
      /\ Cardinality(Held) \in Nat /\ Cardinality(Held') \in Nat
  BY <1>1, FS_Subset, FS_CardinalityType
<1>3. QED
  BY <1>2 DEF LoadKept, Held

LEMMA LoadStep == Shapes /\ LoadKept /\ [Next]_vars => LoadKept'
<1> SUFFICES ASSUME Shapes, LoadKept, [Next]_vars PROVE LoadKept'
  OBVIOUS
<1>a. rel \in [Conn -> {None, "pending", "setup", "active"}]
  BY DEF Shapes
<1>b. ASSUME \A k \in Conn : rel'[k] # None => rel[k] # None PROVE LoadKept'
  BY <1>b, LessHeld DEF Held
<1>1. CASE RelaySide
  <2>1. CASE ExpireRouteAuthorization \/ RelayRestarts
    BY <2>1, <1>a, <1>b DEF ExpireRouteAuthorization, RelayRestarts
  <2>2. ASSUME NEW c \in Ctl, Register(c) \/ ControlClosedAtRelay(c) PROVE LoadKept'
    BY <2>2, <1>b DEF Register, ControlClosedAtRelay
  <2>3. ASSUME NEW k \in Conn, PendingTimeout(k) \/ TunnelSetupFails(k) PROVE LoadKept'
    BY <2>3, <1>a, <1>b DEF PendingTimeout, TunnelSetupFails
  <2>4. ASSUME NEW k \in Conn, AcceptTunnel(k) \/ TunnelReady(k) PROVE LoadKept'
    BY <2>4, <1>a, <1>b DEF AcceptTunnel, TunnelReady, None
  <2>5. ASSUME NEW k \in Conn, BrowserClosedAtRelay(k) PROVE LoadKept'
    BY <2>5, <1>a, <1>b DEF BrowserClosedAtRelay
  <2>6. ASSUME NEW k \in Conn, TunnelClosedAtRelay(k) PROVE LoadKept'
    BY <2>6, <1>a, <1>b DEF TunnelClosedAtRelay
  <2>7. ASSUME NEW k \in Conn, Connect(k) PROVE LoadKept'
    <3>1. rel' = rel \/ (RouteLoad < MaxPerRoute /\ rel' = [rel EXCEPT ![k] = "pending"])
      BY <2>7 DEF Connect
    <3>2. CASE RouteLoad < MaxPerRoute /\ rel' = [rel EXCEPT ![k] = "pending"]
      <4>1. IsFiniteSet(Held) /\ Cardinality(Held) < MaxPerRoute /\ Cardinality(Held) \in Nat
        BY <3>2, FS_Subset, FS_CardinalityType DEF Held, RouteLoad
      <4>2. Held' = Held \cup {k}
        BY <3>2, <1>a DEF Held, None
      <4>3. Cardinality(Held') <= Cardinality(Held) + 1 /\ Cardinality(Held') \in Nat
        <5>1. Cardinality(Held \cup {k}) =
                IF k \in Held THEN Cardinality(Held) ELSE Cardinality(Held) + 1
          BY <4>1, FS_AddElement
        <5>2. QED
          BY <4>1, <4>2, <5>1
      <4>4. MaxPerRoute \in Nat
        OBVIOUS
      <4>5. Cardinality(Held') <= MaxPerRoute
        BY <4>1, <4>3, <4>4
      <4>6. QED
        BY <4>5 DEF LoadKept, Held
    <3>3. QED
      BY <3>1, <3>2, <1>b
  <2>8. ASSUME NEW k \in Conn, Forward(k) PROVE LoadKept'
    BY <2>8, <1>a, <1>b DEF Forward
  <2>9. ASSUME NEW x \in Ctl \cup Conn, LinkBreaks(x) PROVE LoadKept'
    BY <2>9, <1>b DEF LinkBreaks
  <2>10. QED
    BY <1>1, <2>1, <2>2, <2>3, <2>4, <2>5, <2>6, <2>7, <2>8, <2>9 DEF RelaySide
<1>2. CASE UNCHANGED relayCore
  BY <1>2, <1>b DEF relayCore
<1>3. QED
  BY <1>1, <1>2, AgentMoves, Sides DEF WorldSide, Tick, CliProvisions,
     OperatorRenewsCredential, relayCore

-----------------------------------------------------------------------------
(***************************************************************************)
(* The theorems                                                            *)
(***************************************************************************)
LEMMA RouteInit == Init => RouteInv
<1> SUFFICES ASSUME Init PROVE RouteInv
  OBVIOUS
<1>1. NoCap \in Capabilities /\ config \in Capabilities /\ Life \in Nat
  BY SMTT(30) DEF Init, NoCap, Capabilities, Never
<1>2. Shapes
  BY <1>1 DEF Init, Shapes
<1>3. Legacy(config) \/ Granted(config)
  BY <1>1 DEF Init, Legacy, Granted
<1>4. Reached(NoCap)
  BY <1>1 DEF Init, Reached, NoCap, Capabilities
<1>5. LoopAhead /\ ChainSound /\ LiveIsAuthorized
  BY DEF Init, LoopAhead, ChainSound, LiveIsAuthorized
<1>6. LoadKept
  <2>1. Held = {}
    BY DEF Init, Held
  <2>2. QED
    BY <2>1, FS_EmptySet DEF LoadKept, Held
<1>7. QED
  BY <1>2, <1>3, <1>4, <1>5, <1>6 DEF Init, RouteInv

LEMMA RouteStep == RouteInv /\ [Next]_vars => RouteInv'
<1> SUFFICES ASSUME RouteInv, [Next]_vars PROVE RouteInv'
  OBVIOUS
<1>1. Shapes /\ LoopAhead /\ ChainSound /\ LiveIsAuthorized /\ LoadKept
  BY DEF RouteInv
<1>2. Shapes'
  BY <1>1, ShapesStep
<1>3. LoopAhead' /\ ChainSound' /\ LiveIsAuthorized' /\ LoadKept'
  BY <1>1, <1>2, LoopStep, ChainStep, LiveStep, LoadStep
<1>4. Reached(auth)' /\ \A c \in Ctl : Reached(toRelay[c])'
  BY <1>2, <1>3, ReachedStep
<1>5. Legacy(config') \/ Granted(config)'
  BY <1>2, NoneMovesBack
<1>6. Legacy(config)' <=> Legacy(config')
  BY DEF Legacy, Never
<1>7. QED
  BY <1>2, <1>3, <1>4, <1>5, <1>6 DEF RouteInv

(* What the connector, the renewal loop, the configuration file and the relay preserve
   together: the capability on its way to the relay is one the file has and the connector
   keeps, the loop rotates to nothing older, and rotations do not overlap
   (relay-connector, relay-capability-renewal, agent-service-v2). *)
THEOREM RouteInvariant == Spec => []RouteInv
<1>1. Init => RouteInv
  BY RouteInit
<1>2. RouteInv /\ [Next]_vars => RouteInv'
  BY RouteStep
<1>3. QED
  BY <1>1, <1>2, PTL DEF Spec

(* RelayServer.#register accepts no capability older than the one it has installed; what
   the connector registers with next never is, though registrations and their answers
   are lost, both sides crash, and another process renews the file. *)
THEOREM ConnectorNeverBehind == Spec => []NeverBehind
<1>1. RouteInv => NeverBehind
  BY DEF RouteInv, Reached, NeverBehind
<1>2. QED
  BY <1>1, RouteInvariant, PTL

(* Every order of expiry, pruning, close events and restarts leaves no route and no
   connection without an authorization (RelayServer.#pruneRouteAuthorization), and no
   more of them than MAX_CONNECTIONS_PER_ROUTE, in whatever stage they are. *)
THEOREM RouteIsCovered == Spec => [](LiveIsAuthorized /\ LoadKept)
<1>1. RouteInv => LiveIsAuthorized /\ LoadKept
  BY DEF RouteInv
<1>2. QED
  BY <1>1, RouteInvariant, PTL
=============================================================================
