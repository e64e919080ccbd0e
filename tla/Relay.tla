------------------------------- MODULE Relay -------------------------------
(***************************************************************************)
(* The Relay and the agent's half of it: route registration under a        *)
(* capability that expires and is renewed, the control socket and its      *)
(* rotation, and the tunnels that carry browsers to the agent.             *)
(*                                                                         *)
(*   apps/relay/src/relay-server.ts             the relay                  *)
(*   apps/agent/src/gateway/relay-connector.ts  the connector              *)
(*   apps/agent/src/runtime/relay-capability-renewal.ts  the renewal loop  *)
(*   apps/agent/src/runtime/agent-service-v2.ts          their composition *)
(*                                                                         *)
(* One route; routes meet only in the relay's global limits.  A capability *)
(* is the pair of its issue time and its effective expiration: with the    *)
(* owner fixed that is all the relay compares, and its digest is a         *)
(* function of the pair.  The two ends of a socket close one after the     *)
(* other, and a frame towards a closed end is lost.  A broken link loses   *)
(* everything, and each end finds out by a timeout or a heartbeat.         *)
(* Between a process closing its own socket and the close event it gets    *)
(* for it only its own handlers could run, so the two are one step; the    *)
(* exception is a browser's closing handshake.                             *)
(***************************************************************************)
EXTENDS Integers, Sequences, FiniteSets, FiniteSetsExt

CONSTANTS
  Ctl,             \* control sockets, reused once both ends are closed
  Conn,            \* connection ids (random UUIDs: used once)
  MaxTime,         \* bound: the clock stops there
  Life,            \* lifetime the provisioner gives a capability
  Window,          \* RELAY_CAPABILITY_RENEWAL_WINDOW_MS
  MaxPerRoute,     \* MAX_CONNECTIONS_PER_ROUTE
  MaxIncoming,     \* MAX_INCOMING_TUNNELS
  MaxConnects,     \* MAX_CONNECTS_PER_WINDOW (the window is one clock unit)
  MaxFrames,       \* bound: data frames forwarded
  MaxBuffered,     \* MAX_TUNNEL_BUFFERED_BYTES, in frames
  MaxBudget,       \* MAX_RELAY_BUFFERED_BYTES, in frames
  MaxFaults        \* bound: faults of the network and of the processes

ASSUME RelayAssumption ==
  /\ {MaxTime, Life, Window, MaxPerRoute, MaxIncoming} \subseteq Nat
  /\ {MaxConnects, MaxFrames, MaxBuffered, MaxBudget, MaxFaults} \subseteq Nat
  /\ Life > 0 /\ IsFiniteSet(Conn)

None  == "none"
Never == MaxTime + 2 * Life + 1    \* the expiration of an unbounded one

\* LegacyRouteCapabilityPayload | ProvisionedRouteCapabilityPayload
Capability == [iat : 0..MaxTime, exp : 0..Never]
NoCap      == [iat |-> 0, exp |-> 0]
Legacy(c)  == c.exp = Never

VARIABLES
  now,       \* the clock of every machine
  faults,    \* faults so far
  \* ---- the relay
  auth,      \* #routeAuthorizations of the route, NoCap when absent
  route,     \* #routes: the registered control socket, or None
  rel,       \* [Conn -> #pending, #pendingTunnelSetups or #activeByRoute]
  ctlR,      \* control sockets open at the relay
  tunR,      \* connections whose tunnel socket is open at the relay
  bucket,    \* #connectsByAddress of the browsers' address
  reserved,  \* RelayBufferedByteBudget.#reservedBytes
  resv,      \* [Conn -> pendingReservations of the bridge]
  sends,     \* [Conn -> sends whose callback has not run]
  frames,    \* frames forwarded so far
  \* ---- the network
  broken,    \* sockets whose link is down
  toRelay,   \* [Ctl -> the registration on its way]
  toAgent,   \* [Ctl -> frames on their way to the agent]
  tw,        \* [Conn -> the tunnel frame on its way]
  \* ---- the agent
  up,        \* "down", "starting", "up", "stopping"
  cap,       \* #options.routeCapability
  control,   \* #control
  ctlA,      \* control sockets open at the agent
  tunA,      \* [Conn -> #acceptIncoming of the connection]
  chain,     \* #controlTransition: the transitions, the running one first
  tp, ts,    \* its step and its socket
  timer,     \* #reconnectTimer is set
  active,    \* activeCapability of the service
  loop,      \* the step of the renewal loop
  snap,      \* the capability it has read, or hands to onConfig
  grant,     \* the capability it was granted
  \* ---- durable
  config,    \* routeCapability in the host's configuration file
  cred,      \* expiration of the provisioner's credential
  \* ---- the browsers
  bs         \* [Conn -> the browser's socket]

clock     == <<now, faults>>
budget    == <<reserved, resv, sends, frames>>
relayVars == <<auth, route, rel, ctlR, tunR, bucket, budget>>
netVars   == <<broken, toRelay, toAgent, tw>>
agentVars == <<up, cap, control, ctlA, tunA, chain, tp, ts, timer, active,
               loop, snap, grant>>
diskVars  == <<config, cred>>
vars == <<clock, relayVars, netVars, agentVars, diskVars, bs>>

TypeOK ==
  /\ now \in 0..MaxTime /\ faults \in 0..MaxFaults
  /\ {auth, cap, active, snap, grant, config} \subseteq Capability
  /\ {route, control, ts} \subseteq Ctl \cup {None}
  /\ rel \in [Conn -> {None, "pending", "setup", "active"}]
  /\ ctlR \subseteq Ctl /\ ctlA \subseteq Ctl /\ tunR \subseteq Conn
  /\ tunA \in [Conn -> {None, "opening", "accepting", "bridged"}]
  /\ bucket \in [startedAt : 0..MaxTime, count : 0..Cardinality(Conn)]
  /\ reserved \in 0..MaxBudget
  /\ resv \in [Conn -> 0..MaxFrames] /\ sends \in [Conn -> 0..MaxFrames]
  /\ frames \in 0..MaxFrames
  /\ broken \subseteq Ctl \cup Conn
  /\ toRelay \in [Ctl -> Capability]
  /\ toAgent \in [Ctl -> Seq(Conn \cup {"registered"})]
  /\ tw \in [Conn -> [msg : {None, "accept", "accepted", "ready"},
                      cap : Capability]]
  /\ up \in {"down", "starting", "up", "stopping"}
  /\ chain \in Seq([kind : {"start", "rotate", "reconnect"},
                    cand : Capability])
  /\ tp \in {"idle", "opening", "waiting"}
  /\ timer \in BOOLEAN
  /\ loop \in {"idle", "requesting", "applying", "notifying", "rotating"}
  /\ cred \in 0..Never
  /\ bs \in [Conn -> {"idle", "waiting", "connected", "closing", "closed"}]

(***************************************************************************)
(* Capabilities.                                                           *)
(***************************************************************************)

\* verifyRouteCapability: the signature is valid, what is left is the time.
Verified(c) == c.exp > now

\* assertMonotonicRouteAuthorization
Monotonic(current, candidate) ==
  \/ candidate.exp > current.exp
  \/ candidate.exp = current.exp /\ candidate.iat > current.iat
  \/ candidate = current

\* issueProvisionedRouteCapability: the requested lifetime, at most that of
\* the provisioner's credential, which itself must still be valid.
IssueProvisionedRouteCapability ==
  [iat |-> now, exp |-> IF now + Life < cred THEN now + Life ELSE cred]

\* inspectProvisionedRelayCapabilityRenewal
RenewalDue(c) == ~ Legacy(c) /\ c.exp - now <= Window

(***************************************************************************)
(* The relay.                                                              *)
(***************************************************************************)

Expired == auth # NoCap /\ ~ Legacy(auth) /\ auth.exp <= now

\* The live connections are not looked at.
MutPrune(r, rt) == IF rt = None /\ Legacy(auth) THEN NoCap ELSE auth
\* #pruneRouteAuthorization: only an unbounded authorization is released.
Prune(r, rt) ==
  IF rt = None /\ (\A k \in Conn : r[k] = None) /\ Legacy(auth)
  THEN NoCap ELSE auth

\* Closing browsers' sockets from the relay: the browser is told.
CloseBrowsers(K) == [k \in Conn |-> IF k \in K THEN "closed" ELSE bs[k]]

\* The reservations are forgotten and not released.
MutFinish(K) ==
  /\ resv' = [k \in Conn |-> IF k \in K THEN 0 ELSE resv[k]]
  /\ UNCHANGED <<reserved, sends, frames>>
\* finish of the bridges of K: what they have reserved is released, once.
Finish(K) ==
  /\ reserved' = reserved - SumFunctionOnSet(resv, K)
  /\ resv' = [k \in Conn |-> IF k \in K THEN 0 ELSE resv[k]]
  /\ UNCHANGED <<sends, frames>>

\* The connections #expireRouteAuthorization ends.
EndedByExpiration == {k \in Conn : rel[k] # None}

\* #expireRouteAuthorization, run by the timer of #scheduleRouteExpiration or
\* by the first handler that asks #currentRouteAuthorization: every handler
\* below waits for it, so none runs on an expired authorization.
ExpireRouteAuthorization ==
  /\ Expired
  /\ auth' = NoCap /\ route' = None
  /\ rel' = [k \in Conn |-> IF k \in EndedByExpiration THEN None ELSE rel[k]]
  /\ bs' = CloseBrowsers(EndedByExpiration)
  /\ tunR' = tunR \ {k \in EndedByExpiration : rel[k] # "pending"}
  /\ ctlR' = ctlR \ {route}
  /\ Finish(EndedByExpiration)
  /\ UNCHANGED <<bucket, clock, netVars, agentVars, diskVars>>

\* A frame on a control socket, lost when the agent's end is gone.
SendControl(c, m) ==
  IF c \in ctlA \ broken THEN [toAgent EXCEPT ![c] = Append(@, m)] ELSE toAgent

\* #register: a first frame with a capability.  Anything that throws closes
\* the socket with "invalid relay handshake"; there is no refusal frame.
Register(c) ==
  LET m == toRelay[c]
      ok == Verified(m) /\ (auth # NoCap => Monotonic(auth, m))
  IN /\ c \in ctlR \ broken /\ m # NoCap /\ ~ Expired
     /\ toRelay' = [toRelay EXCEPT ![c] = NoCap]
     /\ \/ /\ ok
           /\ auth' = m /\ route' = c
           /\ ctlR' = ctlR \ ({route} \ {c})
           /\ toAgent' = SendControl(c, "registered")
        \/ /\ ~ ok
           /\ ctlR' = ctlR \ {c}
           /\ UNCHANGED <<auth, route, toAgent>>
     /\ UNCHANGED <<rel, tunR, bucket, budget, clock, broken, tw, agentVars,
                    diskVars, bs>>

\* The event does not ask whether the socket is still the route's.
MutRouteAfterClose(c) == None
\* The route after the close event of one of its control sockets.
RouteAfterClose(c) == IF route = c THEN None ELSE route

\* The close event of a control socket at the relay: the agent's end is
\* closed, or the link is down.
ControlClosedAtRelay(c) ==
  /\ c \in ctlR /\ (c \notin ctlA \/ c \in broken) /\ ~ Expired
  /\ ctlR' = ctlR \ {c}
  /\ toRelay' = [toRelay EXCEPT ![c] = NoCap]
  /\ broken' = IF c \in ctlA THEN broken ELSE broken \ {c}
  /\ route' = RouteAfterClose(c)
  /\ auth' = IF route = c THEN Prune(rel, None) ELSE auth
  /\ UNCHANGED <<rel, tunR, bucket, budget, clock, toAgent, tw, agentVars,
                 diskVars, bs>>

\* #consumeAddressBudget: the bucket after one more attempt.
ConsumeAddressBudget ==
  IF now - bucket.startedAt >= 1 THEN [startedAt |-> now, count |-> 1]
  ELSE [bucket EXCEPT !.count = @ + 1]

\* The tunnels that are being set up are left out.
MutRouteLoad == Cardinality({k \in Conn : rel[k] \in {"pending", "active"}})
RouteLoad == Cardinality({k \in Conn : rel[k] # None})

\* #connect: the rate, the route and its load, then the control is told.
Connect(k) ==
  LET b == ConsumeAddressBudget
      ok == b.count <= MaxConnects /\ route # None /\ RouteLoad < MaxPerRoute
  IN /\ bs[k] = "idle" /\ ~ Expired
     /\ bucket' = b
     /\ \/ /\ ok
           /\ rel' = [rel EXCEPT ![k] = "pending"]
           /\ bs' = [bs EXCEPT ![k] = "waiting"]
           /\ toAgent' = SendControl(route, k)
        \/ /\ ~ ok
           /\ bs' = [bs EXCEPT ![k] = "closed"]
           /\ UNCHANGED <<rel, toAgent>>
     /\ UNCHANGED <<auth, route, ctlR, tunR, budget, clock, broken, toRelay,
                    tw, agentVars, diskVars>>

\* The timeout of a pending connection: #clearPending, and the browser's
\* socket is closed.
PendingTimeout(k) ==
  /\ rel[k] = "pending" /\ ~ Expired
  /\ rel' = [rel EXCEPT ![k] = None]
  /\ auth' = Prune(rel', route)
  /\ bs' = CloseBrowsers({k})
  /\ UNCHANGED <<route, ctlR, tunR, bucket, budget, clock, netVars,
                 agentVars, diskVars>>

BrowserOpen(k) == bs[k] \in {"waiting", "connected"}

\* #acceptTunnel: the first frame of a tunnel socket.  A connection whose
\* browser is closing is forgotten before the socket is refused.
AcceptTunnel(k) ==
  LET known == Verified(tw[k].cap) /\ rel[k] = "pending" /\ auth # NoCap
      ok == known /\ BrowserOpen(k)
  IN /\ k \in tunR \ broken /\ tw[k].msg = "accept" /\ ~ Expired
     /\ rel' = [rel EXCEPT ![k] = IF ok THEN "setup"
                                  ELSE IF known THEN None ELSE @]
     /\ tunR' = IF ok THEN tunR ELSE tunR \ {k}
     /\ tw' = [tw EXCEPT ![k] = [msg |-> IF ok THEN "accepted" ELSE None,
                                 cap |-> NoCap]]
     /\ UNCHANGED <<auth, route, ctlR, bucket, budget, clock, broken, toRelay,
                    toAgent, agentVars, diskVars, bs>>

\* The tunnel reports ready in time and nothing expired or closed meanwhile.
TunnelReady(k) ==
  /\ k \in tunR \ broken /\ tw[k].msg = "ready" /\ ~ Expired
  /\ rel[k] = "setup" /\ BrowserOpen(k) /\ auth # NoCap
  /\ rel' = [rel EXCEPT ![k] = "active"]
  /\ tw' = [tw EXCEPT ![k].msg = None]
  /\ bs' = [bs EXCEPT ![k] = "connected"]
  /\ UNCHANGED <<auth, route, ctlR, tunR, bucket, budget, clock, broken,
                 toRelay, toAgent, agentVars, diskVars>>

\* The setup fails: no ready frame in time, the tunnel's socket closed, or
\* its browser is gone.  Both sockets are closed.
TunnelSetupFails(k) ==
  /\ rel[k] = "setup" /\ ~ Expired
  /\ rel' = [rel EXCEPT ![k] = None]
  /\ auth' = Prune(rel', route)
  /\ bs' = CloseBrowsers({k})
  /\ tunR' = tunR \ {k}
  /\ tw' = [tw EXCEPT ![k].msg = None]
  /\ UNCHANGED <<route, ctlR, bucket, budget, clock, broken, toRelay, toAgent,
                 agentVars, diskVars>>

\* The close event of a browser's socket: a pending connection is cleared, a
\* bridge finished and its other end closed; a tunnel that is being set up
\* is left to its own timeout.
BrowserClosedAtRelay(k) ==
  /\ bs[k] = "closing" /\ ~ Expired
  /\ bs' = CloseBrowsers({k})
  /\ rel' = IF rel[k] = "setup" THEN rel ELSE [rel EXCEPT ![k] = None]
  /\ auth' = IF rel[k] \in {"pending", "active"} THEN Prune(rel', route)
             ELSE auth
  /\ tunR' = IF rel[k] = "active" THEN tunR \ {k} ELSE tunR
  /\ Finish({k})
  /\ UNCHANGED <<route, ctlR, bucket, clock, netVars, agentVars, diskVars>>

\* The close event of a tunnel's socket at the relay (a dead peer misses
\* TUNNEL_HEARTBEAT_MISS_LIMIT pings).
TunnelClosedAtRelay(k) ==
  /\ k \in tunR /\ (tunA[k] = None \/ k \in broken) /\ ~ Expired
  /\ rel[k] # "setup"
  /\ tunR' = tunR \ {k}
  /\ tw' = [tw EXCEPT ![k] = [msg |-> None, cap |-> NoCap]]
  /\ rel' = IF rel[k] = "active" THEN [rel EXCEPT ![k] = None] ELSE rel
  /\ auth' = IF rel[k] = "active" THEN Prune(rel', route) ELSE auth
  /\ bs' = IF rel[k] = "active" THEN CloseBrowsers({k}) ELSE bs
  /\ Finish({k})
  /\ UNCHANGED <<route, ctlR, bucket, clock, broken, toRelay, toAgent,
                 agentVars, diskVars>>

\* forward: a frame of the browser goes to the tunnel; a peer too slow for
\* its own or for the relay's budget is terminated, and its source closed.
Forward(k) ==
  LET fits == resv[k] < MaxBuffered /\ reserved < MaxBudget
  IN /\ rel[k] = "active" /\ bs[k] = "connected" /\ k \in tunR /\ ~ Expired
     /\ frames < MaxFrames
     /\ \/ /\ fits
           /\ frames' = frames + 1
           /\ reserved' = reserved + 1
           /\ resv' = [resv EXCEPT ![k] = @ + 1]
           /\ sends' = [sends EXCEPT ![k] = @ + 1]
           /\ UNCHANGED <<auth, rel, tunR, bs>>
        \/ /\ ~ fits
           /\ rel' = [rel EXCEPT ![k] = None]
           /\ auth' = Prune(rel', route)
           /\ tunR' = tunR \ {k}
           /\ bs' = CloseBrowsers({k})
           /\ Finish({k})
     /\ UNCHANGED <<route, ctlR, bucket, clock, netVars, agentVars, diskVars>>

\* release without its `released` flag.
MutRelease(k) == 1
\* What a settled send gives back: nothing, when the bridge released it.
Release(k) == IF resv[k] > 0 THEN 1 ELSE 0

\* The callback of a send.
SendSettled(k) ==
  /\ sends[k] > 0
  /\ sends' = [sends EXCEPT ![k] = @ - 1]
  /\ reserved' = reserved - Release(k)
  /\ resv' = [resv EXCEPT ![k] = IF @ > 0 THEN @ - 1 ELSE 0]
  /\ UNCHANGED <<auth, route, rel, ctlR, tunR, bucket, frames, clock,
                 netVars, agentVars, diskVars, bs>>

\* The relay's process ends (close, or a crash) and another one starts: the
\* authorizations and with them the high-water mark are gone.
RelayRestarts ==
  /\ faults < MaxFaults /\ faults' = faults + 1
  /\ auth' = NoCap /\ route' = None
  /\ rel' = [k \in Conn |-> None] /\ ctlR' = {} /\ tunR' = {}
  /\ bucket' = [startedAt |-> 0, count |-> 0]
  /\ reserved' = 0 /\ resv' = [k \in Conn |-> 0]
  /\ sends' = [k \in Conn |-> 0]
  /\ toRelay' = [c \in Ctl |-> NoCap]
  /\ bs' = CloseBrowsers({k \in Conn : bs[k] # "idle"})
  /\ UNCHANGED <<frames, now, broken, toAgent, tw, agentVars, diskVars>>

(***************************************************************************)
(* The browsers and the network.                                           *)
(***************************************************************************)

\* The page is left, or gives up: the relay has its close frame, and not yet
\* the close event.
BrowserLeaves(k) ==
  /\ BrowserOpen(k)
  /\ bs' = [bs EXCEPT ![k] = "closing"]
  /\ UNCHANGED <<clock, relayVars, netVars, agentVars, diskVars>>

\* A link breaks: nothing passes in either direction any more.
LinkBreaks(x) ==
  /\ x \in ((ctlA \cap ctlR) \cup {k \in tunR : tunA[k] # None}) \ broken
  /\ faults < MaxFaults /\ faults' = faults + 1
  /\ broken' = broken \cup {x}
  /\ toRelay' = [c \in Ctl |-> IF c = x THEN NoCap ELSE toRelay[c]]
  /\ toAgent' = [c \in Ctl |-> IF c = x THEN << >> ELSE toAgent[c]]
  /\ UNCHANGED <<now, relayVars, tw, agentVars, diskVars, bs>>

Tick ==
  /\ now < MaxTime /\ now' = now + 1
  /\ UNCHANGED <<faults, relayVars, netVars, agentVars, diskVars, bs>>

(***************************************************************************)
(* The connector.                                                          *)
(***************************************************************************)

\* The loop is back at its timer: what it knew is forgotten.
LoopEnds == loop' = "idle" /\ snap' = NoCap /\ grant' = NoCap

\* How the end of a transition is passed on: to the renewal loop that waits
\* for a rotation, to #scheduleReconnect, or to the start of the service.
Settle(ok) ==
  LET kind == Head(chain).kind
  IN /\ chain' = Tail(chain) /\ tp' = "idle" /\ ts' = None
     /\ timer' = IF ok THEN FALSE ELSE timer \/ kind = "reconnect"
     /\ active' = IF kind = "rotate" /\ ok THEN snap ELSE active
     /\ up' = IF kind # "start" THEN up ELSE IF ok THEN "up" ELSE "down"
     /\ IF kind = "rotate" THEN LoopEnds ELSE UNCHANGED <<loop, snap, grant>>

\* #transitionControl: the next transition of the chain begins.  A reconnect
\* that finds the control open has nothing to do.
TransitionBegins ==
  /\ chain # << >> /\ tp = "idle"
  /\ IF Head(chain).kind = "reconnect" /\ control # None
     THEN chain' = Tail(chain) /\ UNCHANGED tp
     ELSE tp' = "opening" /\ UNCHANGED chain
  /\ UNCHANGED <<up, cap, control, ctlA, tunA, ts, timer, active, loop, snap,
                 grant, clock, relayVars, netVars, diskVars, bs>>

\* The previous one, until the relay has answered.
MutAdoptedAfterSend(candidate) == cap
\* The capability the connector keeps once the registration has been sent.
AdoptedAfterSend(candidate) == candidate

\* #connectControl, first half: the socket is open and the registration sent.
SendRegistration(c) ==
  LET h == Head(chain)
      candidate == IF h.cand = NoCap THEN cap ELSE h.cand
  IN /\ tp = "opening" /\ c \notin ctlA \cup ctlR
     /\ tp' = "waiting" /\ ts' = c
     /\ ctlA' = ctlA \cup {c} /\ ctlR' = ctlR \cup {c}
     /\ toRelay' = [toRelay EXCEPT ![c] = candidate]
     /\ cap' = AdoptedAfterSend(candidate)
     /\ UNCHANGED <<auth, route, rel, tunR, bucket, budget, clock, broken,
                    toAgent, tw, up, control, tunA, chain, timer, active,
                    loop, snap, grant, diskVars, bs>>

\* openSocket cannot reach the relay.
OpenFails ==
  /\ tp = "opening" /\ faults < MaxFaults /\ faults' = faults + 1
  /\ Settle(FALSE)
  /\ UNCHANGED <<cap, control, ctlA, tunA, now, relayVars, netVars, diskVars,
                 bs>>

\* #connectControl, second half: the relay has registered the route.  The
\* previous control socket is terminated.
Registered ==
  /\ tp = "waiting" /\ ts \notin broken
  /\ toAgent[ts] # << >> /\ Head(toAgent[ts]) = "registered"
  /\ toAgent' = [c \in Ctl |-> IF c = ts THEN Tail(toAgent[c])
                               ELSE IF c = control THEN << >> ELSE toAgent[c]]
  /\ control' = ts
  /\ ctlA' = ctlA \ {control}
  /\ broken' = IF control \in ctlR THEN broken ELSE broken \ {control}
  /\ cap' = IF Head(chain).cand = NoCap THEN cap ELSE Head(chain).cand
  /\ Settle(TRUE)
  /\ UNCHANGED <<tunA, clock, relayVars, toRelay, tw, diskVars, bs>>

\* The socket closed or nextMessage timed out: no answer, so the candidate
\* stays.  An answer that is merely late costs a fault.
NoRegistration ==
  /\ tp = "waiting"
  /\ \/ /\ ts \notin ctlR \/ ts \in broken
        /\ UNCHANGED faults
     \/ /\ ts \in ctlR \ broken
        /\ faults < MaxFaults /\ faults' = faults + 1
  /\ ctlA' = ctlA \ {ts}
  /\ broken' = IF ts \in ctlR THEN broken ELSE broken \ {ts}
  /\ toAgent' = [toAgent EXCEPT ![ts] = << >>]
  /\ Settle(FALSE)
  /\ UNCHANGED <<cap, control, tunA, now, relayVars, toRelay, tw, diskVars, bs>>

\* The control socket is gone for the agent: #scheduleReconnect.
DropControl ==
  /\ ctlA' = ctlA \ {control}
  /\ broken' = IF control \in ctlR THEN broken ELSE broken \ {control}
  /\ toAgent' = [c \in Ctl |-> IF c = control THEN << >> ELSE toAgent[c]]
  /\ control' = None
  /\ timer' = (timer \/ control # None)

\* The close event of the control socket at the agent: the relay closed it,
\* or the pings of #startHeartbeat stay unanswered.
ControlClosedAtAgent ==
  /\ control # None /\ (control \notin ctlR \/ control \in broken)
  /\ DropControl
  /\ UNCHANGED <<up, cap, tunA, chain, tp, ts, active, loop, snap, grant,
                 clock, relayVars, toRelay, tw, diskVars, bs>>

\* #scheduleReconnect: the timer fires.
ReconnectTimer ==
  /\ timer /\ up \in {"up", "stopping"}
  /\ timer' = FALSE
  /\ chain' = Append(chain, [kind |-> "reconnect", cand |-> NoCap])
  /\ UNCHANGED <<up, cap, control, ctlA, tunA, tp, ts, active, loop, snap,
                 grant, clock, relayVars, netVars, diskVars, bs>>

\* #handleControlMessage and the beginning of #acceptIncoming.
HandleControlMessage(k) ==
  /\ control \in ctlA \ broken /\ toAgent[control] # << >>
  /\ Head(toAgent[control]) = k
  /\ toAgent' = [toAgent EXCEPT ![control] = Tail(@)]
  /\ tunA' = IF Cardinality({j \in Conn : tunA[j] # None}) >= MaxIncoming
             THEN tunA ELSE [tunA EXCEPT ![k] = "opening"]
  /\ UNCHANGED <<up, cap, control, ctlA, chain, tp, ts, timer, active, loop,
                 snap, grant, clock, relayVars, broken, toRelay, tw, diskVars,
                 bs>>

\* #acceptIncoming: the tunnel's socket is open and accepts the connection
\* under the capability of that moment.
SendAccept(k) ==
  /\ tunA[k] = "opening"
  /\ tunA' = [tunA EXCEPT ![k] = "accepting"]
  /\ tunR' = tunR \cup {k}
  /\ tw' = [tw EXCEPT ![k] = [msg |-> "accept", cap |-> cap]]
  /\ UNCHANGED <<auth, route, rel, ctlR, bucket, budget, clock, broken,
                 toRelay, toAgent, up, cap, control, ctlA, chain, tp, ts,
                 timer, active, loop, snap, grant, diskVars, bs>>

\* The relay accepted: the gateway takes the socket and reports ready.
Accepted(k) ==
  /\ tunA[k] = "accepting" /\ tw[k].msg = "accepted" /\ k \notin broken
  /\ tunA' = [tunA EXCEPT ![k] = "bridged"]
  /\ tw' = [tw EXCEPT ![k].msg = "ready"]
  /\ UNCHANGED <<up, cap, control, ctlA, chain, tp, ts, timer, active, loop,
                 snap, grant, clock, relayVars, broken, toRelay, toAgent,
                 diskVars, bs>>

\* The socket could not be opened, closed, or nothing came in time: the
\* control connection is taken for stale and terminated with it.
AcceptFails(k) ==
  /\ \/ tunA[k] = "opening" /\ faults < MaxFaults /\ faults' = faults + 1
     \/ tunA[k] = "accepting" /\ UNCHANGED faults
  /\ tunA' = [tunA EXCEPT ![k] = None]
  /\ DropControl
  /\ UNCHANGED <<up, cap, chain, tp, ts, active, loop, snap, grant, now,
                 relayVars, toRelay, tw, diskVars, bs>>

\* The close event of a tunnel's socket at the agent.
TunnelClosedAtAgent(k) ==
  /\ tunA[k] = "bridged" /\ (k \notin tunR \/ k \in broken)
  /\ tunA' = [tunA EXCEPT ![k] = None]
  /\ UNCHANGED <<up, cap, control, ctlA, chain, tp, ts, timer, active, loop,
                 snap, grant, clock, relayVars, netVars, diskVars, bs>>

(***************************************************************************)
(* The renewal loop and the service around it.                             *)
(***************************************************************************)

connectorVars == <<cap, control, ctlA, tunA, tp, ts, timer>>

\* renewRelayCapabilityIfNeeded reads the configuration: a capability that
\* is not due goes to onConfig as it is, another one to the provisioner.
LoopReads ==
  /\ up = "up" /\ loop = "idle"
  /\ RenewalDue(config) \/ config # active
  /\ snap' = config
  /\ loop' = IF RenewalDue(config) THEN "requesting" ELSE "notifying"
  /\ UNCHANGED <<up, connectorVars, chain, active, grant, clock, relayVars,
                 netVars, diskVars, bs>>

\* The provisioner answers or fails.  A grant that does not extend the
\* authorization is not applied.
LoopGrant ==
  LET g == IssueProvisionedRouteCapability
  IN /\ loop = "requesting"
     /\ IF cred <= now \/ up = "stopping" THEN LoopEnds
        ELSE IF g.exp > snap.exp
        THEN loop' = "applying" /\ grant' = g /\ UNCHANGED snap
        ELSE loop' = "notifying" /\ UNCHANGED <<snap, grant>>
     /\ UNCHANGED <<up, connectorVars, chain, active, clock, relayVars,
                    netVars, diskVars, bs>>

\* The capability in the file may only move from what the loop has read.
Unchanged == config = snap

\* applyRelayCapabilityRenewal, under the host-config lock.
LoopApplies ==
  /\ loop = "applying"
  /\ config' = IF Unchanged THEN grant ELSE config
  /\ IF Unchanged /\ up = "up"
     THEN loop' = "notifying" /\ snap' = grant /\ grant' = NoCap
     ELSE LoopEnds
  /\ UNCHANGED <<up, connectorVars, chain, active, clock, relayVars, netVars,
                 cred, bs>>

\* onConfig and rotateRouteCapability: nothing to do when the service has
\* this capability, nothing either when the connector already keeps it.
LoopNotifies ==
  /\ loop = "notifying"
  /\ \/ /\ up # "up" \/ snap = active
        /\ LoopEnds /\ UNCHANGED <<active, chain>>
     \/ /\ up = "up" /\ snap # active /\ snap = cap
        /\ active' = snap /\ LoopEnds /\ UNCHANGED chain
     \/ /\ up = "up" /\ snap # active /\ snap # cap
        /\ loop' = "rotating"
        /\ chain' = Append(chain, [kind |-> "rotate", cand |-> snap])
        /\ UNCHANGED <<active, snap, grant>>
  /\ UNCHANGED <<up, connectorVars, clock, relayVars, netVars, diskVars, bs>>

\* Another process of the user's applies a grant (applySelfProvisioningGrant).
CliProvisions ==
  /\ faults < MaxFaults /\ faults' = faults + 1
  /\ ~ Legacy(config) /\ cred > now
  /\ config' = IssueProvisionedRouteCapability
  /\ UNCHANGED <<now, relayVars, netVars, agentVars, cred, bs>>

\* The operator installs a new credential.
OperatorRenewsCredential ==
  /\ faults < MaxFaults /\ faults' = faults + 1
  /\ cred < now + 2 * Life /\ cred' = now + 2 * Life
  /\ UNCHANGED <<now, relayVars, netVars, agentVars, config, bs>>

\* runAgentServiceV2: an expired capability is renewed first if possible (a
\* renewal that fails is deferred), then the connector starts with what the
\* configuration holds.
AgentStarts ==
  /\ up = "down"
  /\ \/ /\ ~ (~ Verified(config) /\ cred > now)
        /\ UNCHANGED <<config, faults>>
     \/ /\ ~ Verified(config) /\ cred > now
        /\ \/ config' = IssueProvisionedRouteCapability /\ UNCHANGED faults
           \/ /\ UNCHANGED config
              /\ faults < MaxFaults /\ faults' = faults + 1
  /\ cap' = config' /\ active' = config'
  /\ up' = "starting"
  /\ chain' = <<[kind |-> "start", cand |-> NoCap]>>
  /\ UNCHANGED <<control, ctlA, tunA, tp, ts, timer, loop, snap, grant, now,
                 relayVars, netVars, cred, bs>>

\* The shutdown signal: relayRenewal.close waits for a check that runs.
AgentStops ==
  /\ up = "up" /\ faults < MaxFaults /\ faults' = faults + 1
  /\ up' = "stopping"
  /\ UNCHANGED <<connectorVars, chain, active, loop, snap, grant, now,
                 relayVars, netVars, diskVars, bs>>

\* The process ends: the sockets are gone, and so is all it knew.
ProcessEnds ==
  /\ up' = "down" /\ control' = None /\ ctlA' = {}
  /\ tunA' = [k \in Conn |-> None]
  /\ toAgent' = [c \in Ctl |-> << >>] /\ broken' = broken \cap (ctlR \cup tunR)
  /\ chain' = << >> /\ tp' = "idle" /\ ts' = None /\ timer' = FALSE
  /\ cap' = NoCap /\ active' = NoCap /\ LoopEnds
  /\ UNCHANGED <<now, relayVars, toRelay, tw, diskVars, bs>>

\* relayConnector.close, once the loop has stopped.
AgentExits == up = "stopping" /\ loop = "idle" /\ UNCHANGED faults /\ ProcessEnds

AgentCrashes ==
  /\ up # "down" /\ faults < MaxFaults /\ faults' = faults + 1
  /\ ProcessEnds

(***************************************************************************)
(* The specification.                                                      *)
(***************************************************************************)

Init ==
  /\ now = 0 /\ faults = 0
  /\ auth = NoCap /\ route = None
  /\ rel = [k \in Conn |-> None]
  /\ ctlR = {} /\ ctlA = {} /\ tunR = {}
  /\ tunA = [k \in Conn |-> None]
  /\ bucket = [startedAt |-> 0, count |-> 0]
  /\ reserved = 0 /\ frames = 0
  /\ resv = [k \in Conn |-> 0] /\ sends = [k \in Conn |-> 0]
  /\ broken = {}
  /\ toRelay = [c \in Ctl |-> NoCap] /\ toAgent = [c \in Ctl |-> << >>]
  /\ tw = [k \in Conn |-> [msg |-> None, cap |-> NoCap]]
  /\ up = "down" /\ control = None
  /\ chain = << >> /\ tp = "idle" /\ ts = None /\ timer = FALSE
  /\ loop = "idle" /\ snap = NoCap /\ grant = NoCap
  /\ config \in {[iat |-> 0, exp |-> Life], [iat |-> 0, exp |-> Never]}
  /\ cap = NoCap /\ active = NoCap
  /\ cred = 2 * Life
  /\ bs = [k \in Conn |-> "idle"]

RelayStep ==
  \/ ExpireRouteAuthorization
  \/ \E c \in Ctl : Register(c) \/ ControlClosedAtRelay(c)
  \/ \E k \in Conn : \/ PendingTimeout(k) \/ AcceptTunnel(k)
                     \/ TunnelReady(k) \/ TunnelSetupFails(k)
                     \/ BrowserClosedAtRelay(k) \/ TunnelClosedAtRelay(k)
                     \/ SendSettled(k)

AgentStep ==
  \/ TransitionBegins \/ Registered \/ NoRegistration \/ ReconnectTimer
  \/ ControlClosedAtAgent
  \/ \E c \in Ctl : SendRegistration(c)
  \/ \E k \in Conn : \/ HandleControlMessage(k) \/ SendAccept(k)
                     \/ Accepted(k) \/ AcceptFails(k)
                     \/ TunnelClosedAtAgent(k)
  \/ LoopReads \/ LoopGrant \/ LoopApplies \/ LoopNotifies
  \/ AgentStarts \/ AgentExits

Environment ==
  \/ Tick \/ RelayRestarts \/ OpenFails \/ CliProvisions
  \/ OperatorRenewsCredential \/ AgentStops \/ AgentCrashes
  \/ \E k \in Conn : Connect(k) \/ BrowserLeaves(k) \/ Forward(k)
  \/ \E x \in Ctl \cup Conn : LinkBreaks(x)

Next == RelayStep \/ AgentStep \/ Environment

\* Timers, handlers and close events run; the clock, the faults and the
\* users do what they want.  An agent that is down is started again by its
\* watchdog.
Fairness ==
  /\ WF_vars(ExpireRouteAuthorization)
  /\ WF_vars(TransitionBegins) /\ WF_vars(Registered)
  /\ WF_vars(NoRegistration) /\ WF_vars(ReconnectTimer)
  /\ WF_vars(ControlClosedAtAgent)
  /\ WF_vars(\E c \in Ctl : SendRegistration(c))
  /\ \A c \in Ctl : WF_vars(Register(c)) /\ WF_vars(ControlClosedAtRelay(c))
  /\ \A k \in Conn : /\ WF_vars(PendingTimeout(k))
                     /\ WF_vars(TunnelSetupFails(k))
                     /\ WF_vars(BrowserClosedAtRelay(k))
  /\ WF_vars(LoopReads) /\ WF_vars(LoopGrant) /\ WF_vars(LoopApplies)
  /\ WF_vars(LoopNotifies) /\ WF_vars(AgentStarts) /\ WF_vars(AgentExits)

Spec     == Init /\ [][Next]_vars
FairSpec == Spec /\ Fairness

(***************************************************************************)
(* Properties.                                                             *)
(***************************************************************************)

\* A registered route and every connection the relay holds for it is under
\* an authorization: no expiry, pruning, close event or restart, in any
\* order, leaves one behind that #currentRouteAuthorization would not end.
LiveIsAuthorized ==
  auth = NoCap => route = None /\ \A k \in Conn : rel[k] = None

\* MAX_CONNECTIONS_PER_ROUTE bounds what the relay holds for the route,
\* through every stage of a connection, not only when it is admitted.
LoadKept == Cardinality({k \in Conn : rel[k] # None}) <= MaxPerRoute

\* The relay's byte budget is what the bridges have reserved: a send that
\* settles after its bridge finished does not give the bytes back twice, and
\* no order of closing and settling keeps any.
BudgetBalanced == reserved = SumFunction(resv)

\* The connector, and a restarted agent, never fall behind the relay's
\* high-water mark: whatever was lost, what they register with next is not
\* refused for being older than what the relay has installed.
NeverBehind ==
  auth # NoCap =>
    /\ auth.exp <= config.exp
    /\ up # "down" => auth.exp <= cap.exp

\* An agent whose provisioner's credential is valid has its control socket
\* registered as the route: what must hold in the end, once the faults are over.
Online == up = "up" /\ control # None /\ route = control
ValidIsOnline == cred > now => Online

\* CHANGELOG: a renewal rotates the control registration only and keeps the
\* established tunnels.  So the relay never ends a tunnel for expiration
\* when the service has rotated to a later capability.
RotationKeepsTunnels ==
  [][(\E k \in Conn : rel[k] = "active") /\ up = "up" /\ ExpireRouteAuthorization
     => active.exp <= auth.exp]_vars

(***************************************************************************)
(* The inductive invariant behind NeverBehind.                             *)
(***************************************************************************)
Capabilities == [iat : Nat, exp : Nat]
Kinds == {"start", "rotate", "reconnect"}

Shapes ==
  /\ {now, cred} \subseteq Nat
  /\ {auth, cap, snap, grant, config} \subseteq Capabilities
  /\ toRelay \in [Ctl -> Capabilities]
  /\ chain \in Seq([kind : Kinds, cand : Capabilities])
  /\ rel \in [Conn -> {None, "pending", "setup", "active"}]
  /\ tp # "idle" => chain # << >>

\* What the provisioner may grant at this moment, at most.
Granted(c) == c.exp <= now + Life /\ c.exp <= cred

\* Neither the file nor, while it runs, the connector is behind a capability.
Reached(c) == c.exp <= config.exp /\ (up # "down" => c.exp <= cap.exp)

\* The renewal loop works for a service that runs, on a capability that the
\* connector has at most reached and the file has.  Nor is there a transition
\* of a connector whose service is down.
LoopAhead ==
  /\ up # "down" => cap.exp <= config.exp
  /\ loop # "idle" => /\ up \in {"up", "stopping"}
                      /\ cap.exp <= snap.exp /\ snap.exp <= config.exp
  /\ loop = "applying" => snap.exp < grant.exp /\ Granted(grant)
  /\ chain # << >> => up # "down"

\* One rotation at a time, the loop's, and a start only of a service that starts.
ChainSound ==
  \A i \in 1 .. Len(chain) :
    /\ IF chain[i].kind = "rotate"
       THEN loop = "rotating" /\ chain[i].cand = snap ELSE chain[i].cand = NoCap
    /\ chain[i].kind = "start" => up = "starting" /\ Len(chain) = 1
    /\ \A j \in 1 .. Len(chain) : chain[i].kind = "rotate" /\ chain[j].kind = "rotate" => i = j

RouteInv ==
  /\ Shapes
  /\ Legacy(config) \/ Granted(config)
  /\ Reached(auth) /\ \A c \in Ctl : Reached(toRelay[c])
  /\ LoopAhead /\ ChainSound
  /\ LiveIsAuthorized /\ LoadKept
=============================================================================
