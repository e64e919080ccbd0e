------------------------------ MODULE Connect ------------------------------
(***************************************************************************)
(* How a page gets a gateway to its host and keeps it: HostPage, the flows *)
(* of connect-host.ts (pair, log in, connect a saved host, and the         *)
(* one-time mutations of the settings page), the search for a target in    *)
(* EncryptedGatewayV2Transport.open, and the ReconnectingGatewayPort that  *)
(* replaces lost transports.                                               *)
(*                                                                         *)
(* The Agent is the part of it the flows depend on: the handshake of each  *)
(* connection, the pairing grant, the trusted device keys, the page        *)
(* tickets, the session-bound challenge, and the window in which an        *)
(* ephemeral mutation is answered again under its operation key (Access    *)
(* models that side in full).                                              *)
(***************************************************************************)
EXTENDS Naturals, FiniteSets

CONSTANTS
    Kinds,      \* the flows the user starts
    Slot,       \* connections that can exist at a time
    MaxTries,   \* attempts of replayableEphemeralMutation (120 in the code)
    Scenes      \* bounds on the behaviours: connection targets of the host (direct, relay),
                \* flows the user starts, failures

ConnectAssumption ==
    /\ Slot \subseteq Nat \ {0} /\ Kinds \subseteq {"pair", "login", "connect", "enrol"}
    /\ MaxTries \in Nat \ {0}
    /\ Scenes \subseteq [targets : Nat \ {0}, flows : Nat, faults : Nat]

VARIABLES
    page,       \* the flow that runs in the page
    port,       \* the ReconnectingGatewayPort
    opening,    \* open(): the target and the socket being tried, for the flow and the port
    links,      \* the two ends of every connection
    call,       \* the flow's request
    agent,      \* what the Agent knows
    saved,      \* the device key in the browser's storage (0: none)
    heard,      \* device keys whose pairing the page saw accepted and could store
    bounds      \* what is left of the scene

vars == <<page, port, opening, links, call, agent, saved, heard, bounds>>

Openers == {"flow", "port"}
Older == 9                \* a device key from an earlier visit
Key == 0 .. Older
Ends == {"none", "hello", "up", "closed"}

NoLink == [mode |-> "none", web |-> "none", agent |-> "none", reply |-> "none", auth |-> FALSE,
           key |-> 0]
NoPort == [made |-> FALSE, current |-> 0, timer |-> FALSE, closed |-> FALSE,
           terminal |-> FALSE, mode |-> "none", deaf |-> FALSE]
NoOpen == [on |-> FALSE, target |-> 0, link |-> 0]
NoCall == [link |-> 0, step |-> "none", stage |-> "none"]

(* A new host, one with an identity, or one that also trusts this browser *)
Init ==
    /\ page = [at |-> "idle", kind |-> "none", remember |-> FALSE, challenged |-> FALSE,
               stray |-> FALSE, tries |-> 0, result |-> "none", session |-> 0, key |-> 0]
    /\ port = NoPort
    /\ opening = [o \in Openers |-> NoOpen]
    /\ links = [n \in Slot |-> NoLink]
    /\ call = NoCall
    /\ \E known \in BOOLEAN, k \in {0, Older} :
         /\ k # 0 => known
         /\ agent = [grant |-> TRUE, trusted |-> {k} \ {0}, tickets |-> {}, known |-> known,
                     challenge |-> 0, cached |-> FALSE, ran |-> FALSE]
         /\ saved = k
    /\ heard = {}
    /\ bounds \in Scenes

-----------------------------------------------------------------------------
(***************************************************************************)
(* Helpers                                                                 *)
(***************************************************************************)
Fault == bounds.faults > 0 /\ bounds' = [bounds EXCEPT !.faults = @ - 1]

(* TypedGatewayPort.close, EncryptedGatewayV2Transport.close *)
Closed(L, S) == [n \in Slot |-> IF n \in S THEN [L[n] EXCEPT !.web = "closed"] ELSE L[n]]

(* A slot that neither end nor the page refers to any more is free again. *)
Free(n) ==
    /\ links[n].web \in {"none", "closed"} /\ links[n].agent \in {"none", "closed"}
    /\ links[n].mode = "none" \/ links[n].agent = "closed"
    /\ n \notin {page.session, port.current, call.link, agent.challenge}

Start(o) == [opening EXCEPT ![o] = [on |-> TRUE, target |-> 1, link |-> 0]]
Stop(o) == [opening EXCEPT ![o] = NoOpen]

(* The gateway the flow's requests go through *)
Via == IF port.made THEN port.current ELSE page.session

(* The authentication of a connection: of the flow's step, or of the port's closure *)
Mode(o) ==
    CASE o = "port" -> port.mode
      [] page.at = "reopening" -> "login"
      [] page.at = "rebinding" -> IF page.remember THEN "connect" ELSE "resume"
      [] OTHER -> page.kind

(* reconnectingPort, #attach: a transport that was lost before is not noticed. *)
Attached(n, mode, L) ==
    [NoPort EXCEPT !.made = TRUE, !.current = n, !.mode = mode, !.deaf = L[n].web # "up"]

-----------------------------------------------------------------------------
(***************************************************************************)
(* Endings                                                                 *)
(***************************************************************************)
Finishing == {"finish", "refinish"}

(* The catch of loginHost and pairHost closes what they opened. A failure of a mutation
   of the settings page leaves the port alone. *)
Fails(L, P) ==
    IF page.kind = "enrol"
    THEN /\ page' = [page EXCEPT !.at = "done", !.result = "error"]
         /\ links' = L /\ port' = P /\ opening' = Stop("flow")
    ELSE /\ page' = [page EXCEPT !.at = "failed", !.result = "error", !.session = 0]
         /\ links' = Closed(L, {page.session, P.current} \ {0})
         /\ port' = [P EXCEPT !.closed = P.made, !.current = 0, !.timer = FALSE]
         /\ opening' = Stop("flow")

(* MutationOutcomeUnknownError: finishAuthentication closes the gateway and asks again on
   a replacement; replayableEphemeralMutation waits and asks again. *)
Unknown(step, L, P) ==
    CASE step = "finish" /\ page.kind = "login" ->
           /\ page' = [page EXCEPT !.at = "reopening", !.session = 0]
           /\ links' = Closed(L, {page.session}) /\ port' = P /\ opening' = Start("flow")
      [] step = "finish" /\ page.kind # "login" /\ page.tries + 1 < MaxTries ->
           /\ page' = [page EXCEPT !.at = "delay", !.tries = @ + 1]
           /\ links' = L /\ port' = P /\ UNCHANGED opening
      [] OTHER -> Fails(L, P)

(* A request that was rejected: of a query, or of a mutation that may have run *)
Rejected(step, L, P) ==
    IF step = "status" THEN Fails(L, P) ELSE Unknown(step, L, P)

-----------------------------------------------------------------------------
(***************************************************************************)
(* The user                                                                *)
(***************************************************************************)
Resting == page.at \in {"idle", "failed"}

(* lookupHostProfile: of the Relay's directory or of the Direct address; the identity
   domain a Direct profile is used for is not part of it. *)
Lookup(kind, fresh, stray) == stray => kind = "login" /\ fresh

(* generateStaticKeyPair, createLoginHost *)
NewKey == bounds.flows

(* connect, login and pair of HostPage. A host that logs in without having been saved is
   looked up first (lookupHostProfile, createLoginHost) and has new keys, as a paired one;
   what the directory says of its identity is only checked in the handshake (stray). *)
Begin(kind, remember, challenged, fresh, stray) ==
    /\ Resting /\ bounds.flows > 0 /\ ~opening["port"].on
    /\ kind = "connect" => saved # 0 /\ ~fresh /\ remember /\ ~challenged
    /\ kind = "pair" => fresh /\ remember /\ challenged
    /\ fresh \/ saved # 0
    /\ Lookup(kind, fresh, stray)
    /\ page' = [at |-> "opening", kind |-> kind, remember |-> remember,
                challenged |-> challenged, stray |-> stray, tries |-> 0,
                result |-> "none", session |-> 0,
                key |-> IF fresh THEN NewKey ELSE saved]
    /\ port' = NoPort
    /\ opening' = Start("flow")
    /\ agent' = [agent EXCEPT !.cached = FALSE, !.ran = FALSE]
    /\ bounds' = [bounds EXCEPT !.flows = @ - 1]
    /\ UNCHANGED <<links, call, saved, heard>>

(* registerPassword, registerPasskey and, without a challenge, rotateRecoveryCodes *)
Enrol(challenged) ==
    /\ page.at = "done" /\ port.made /\ bounds.flows > 0
    /\ page' = [page EXCEPT !.at = IF challenged THEN "challenge" ELSE "finish",
                            !.kind = "enrol", !.challenged = challenged,
                            !.tries = 0, !.result = "none"]
    /\ agent' = [agent EXCEPT !.cached = FALSE, !.ran = FALSE]
    /\ bounds' = [bounds EXCEPT !.flows = @ - 1]
    /\ UNCHANGED <<port, opening, links, call, saved, heard>>

(* The answer to the Passkey prompt, or to the OPAQUE challenge; or a refusal *)
Prompt ==
    /\ page.at = "prompt"
    /\ \/ page' = [page EXCEPT !.at = "finish"] /\ UNCHANGED <<links, port, opening>>
       \/ Fails(links, port)
    /\ UNCHANGED <<call, agent, saved, heard, bounds>>

(* ReconnectingGatewayPort.close: the owner of the page leaves the host. *)
Leave ==
    /\ page.at = "done"
    /\ page' = [page EXCEPT !.at = "idle", !.session = 0]
    /\ links' = Closed(links, {page.session, port.current} \ {0})
    /\ port' = [port EXCEPT !.closed = port.made, !.current = 0, !.timer = FALSE]
    /\ UNCHANGED <<opening, call, agent, saved, heard, bounds>>

(* deleteHost: the storage forgets the host. *)
Forget ==
    /\ Resting /\ saved # 0
    /\ heard' = heard \ {saved} /\ saved' = 0
    /\ UNCHANGED <<page, port, opening, links, call, agent, bounds>>

-----------------------------------------------------------------------------
(***************************************************************************)
(* Opening a connection                                                    *)
(***************************************************************************)
MutNextTarget(o, L) ==
    IF opening[o].target < bounds.targets
    THEN /\ opening' = [opening EXCEPT ![o].target = @ + 1, ![o].link = 0]
         /\ links' = L /\ UNCHANGED <<page, port>>
    ELSE IF o = "flow" THEN Fails(L, port)
    ELSE /\ port' = [port EXCEPT !.timer = FALSE]
         /\ opening' = Stop(o) /\ links' = L /\ UNCHANGED page

(* The next target of connectionTargets, or the failure of open() *)
NextTarget(o, L) ==
    IF opening[o].target < bounds.targets
    THEN /\ opening' = [opening EXCEPT ![o].target = @ + 1, ![o].link = 0]
         /\ links' = L /\ UNCHANGED <<page, port>>
    ELSE IF o = "flow" THEN Fails(L, port)
    ELSE /\ port' = [port EXCEPT !.timer = ~port.closed]
         /\ opening' = Stop(o) /\ links' = L /\ UNCHANGED page

(* #openTarget up to the hello: a socket that does not open, or a Relay that does not
   answer, is the end of the target. *)
Dial(o) ==
    /\ opening[o].on /\ opening[o].link = 0
    /\ \/ Fault /\ NextTarget(o, links)
       \/ \E n \in Slot :
            /\ Free(n) /\ \A m \in Slot : Free(m) => n <= m
            /\ links' = [links EXCEPT ![n] = [NoLink EXCEPT !.mode = Mode(o), !.web = "hello",
                                                            !.key = page.key]]
            /\ opening' = [opening EXCEPT ![o].link = n]
            /\ UNCHANGED <<page, port, bounds>>
    /\ UNCHANGED <<call, agent, saved, heard>>

(* No reply in time, or the socket is closed: by the network, or by an Agent that refused
   the hello. *)
OpenBroken(o) ==
    /\ opening[o].link # 0
    /\ LET n == opening[o].link IN
       /\ \/ Fault
          \/ links[n].agent = "closed" /\ links[n].reply = "none" /\ UNCHANGED bounds
       /\ NextTarget(o, Closed(links, {n}))
    /\ UNCHANGED <<call, agent, saved, heard>>

(* GatewayReauthenticationRequiredError ends open() at once, and a port for good. *)
OpenRefused(o) ==
    /\ opening[o].link # 0 /\ links[opening[o].link].reply = "reauth"
    /\ LET L == Closed(links, {opening[o].link}) IN
       IF o = "flow" THEN Fails(L, port)
       ELSE /\ port' = [port EXCEPT !.terminal = ~port.closed]
            /\ opening' = Stop(o) /\ links' = L /\ UNCHANGED page
    /\ UNCHANGED <<call, agent, saved, heard, bounds>>

Up(n) == [links EXCEPT ![n].web = "up"]

MutFlowOpened(n) ==
    /\ opening' = Stop("flow")
    /\ CASE page.at = "opening" /\ page.kind = "connect" ->
              /\ page' = [page EXCEPT !.at = "done", !.result = "ok"]
              /\ port' = Attached(n, "connect", Up(n)) /\ links' = Up(n) /\ UNCHANGED heard
         [] page.at = "opening" /\ page.kind = "pair" ->
              /\ page' = [page EXCEPT !.at = "status", !.session = n]
              /\ links' = Up(n) /\ heard' = heard \cup {page.key} /\ UNCHANGED port
         [] page.at = "opening" /\ page.kind = "login" ->
              /\ page' = [page EXCEPT !.at = "status", !.session = n]
              /\ links' = Up(n) /\ UNCHANGED <<port, heard>>
         [] page.at = "reopening" ->
              /\ page' = [page EXCEPT !.at = "refinish", !.session = n]
              /\ links' = Up(n) /\ UNCHANGED <<port, heard>>
         [] OTHER ->
              /\ links' = Closed(Up(n), {page.session})
              /\ IF page.remember
                 THEN page' = [page EXCEPT !.at = "save", !.session = n] /\ UNCHANGED port
                 ELSE /\ page' = [page EXCEPT !.at = "done", !.result = "ok", !.session = 0]
                      /\ port' = Attached(n, "resume", Up(n))
              /\ UNCHANGED heard

(* What follows open() in the flow: connectSavedHost attaches the port, pairHost stores
   the host, loginHost asks for the status, or repeats the final request, or gives up the
   connection it repeated the request on for one that is bound to the result. *)
FlowOpened(n) ==
    /\ opening' = Stop("flow")
    /\ CASE page.at = "opening" /\ page.kind = "connect" ->
              /\ page' = [page EXCEPT !.at = "done", !.result = "ok"]
              /\ port' = Attached(n, "connect", Up(n)) /\ links' = Up(n) /\ UNCHANGED heard
         [] page.at = "opening" /\ page.kind = "pair" ->
              /\ page' = [page EXCEPT !.at = "save", !.session = n]
              /\ links' = Up(n) /\ heard' = heard \cup {page.key} /\ UNCHANGED port
         [] page.at = "opening" /\ page.kind = "login" ->
              /\ page' = [page EXCEPT !.at = "status", !.session = n]
              /\ links' = Up(n) /\ UNCHANGED <<port, heard>>
         [] page.at = "reopening" ->
              /\ page' = [page EXCEPT !.at = "refinish", !.session = n]
              /\ links' = Up(n) /\ UNCHANGED <<port, heard>>
         [] OTHER ->
              /\ links' = Closed(Up(n), {page.session})
              /\ IF page.remember
                 THEN page' = [page EXCEPT !.at = "save", !.session = n] /\ UNCHANGED port
                 ELSE /\ page' = [page EXCEPT !.at = "done", !.result = "ok", !.session = 0]
                      /\ port' = Attached(n, "resume", Up(n))
              /\ UNCHANGED heard

MutPortOpened(n) ==
    /\ opening' = Stop("port")
    /\ links' = Up(n)
    /\ port' = IF port.closed THEN port ELSE [port EXCEPT !.current = n, !.deaf = FALSE]
    /\ UNCHANGED <<page, heard>>

(* #attemptReconnect: a port that was closed meanwhile closes the transport. *)
PortOpened(n) ==
    /\ opening' = Stop("port")
    /\ IF port.closed
       THEN links' = Closed(links, {n}) /\ UNCHANGED port
       ELSE links' = Up(n) /\ port' = [port EXCEPT !.current = n, !.deaf = FALSE]
    /\ UNCHANGED <<page, heard>>

(* The reply of an Agent that accepted: of the wrong identity domain it is an error. *)
OpenReply(o) ==
    /\ opening[o].link # 0
    /\ LET n == opening[o].link IN
       /\ links[n].reply = "ok"
       /\ IF o = "flow" /\ page.stray
          THEN NextTarget(o, Closed(links, {n})) /\ UNCHANGED heard
          ELSE IF o = "flow" THEN FlowOpened(n) ELSE PortOpened(n)
    /\ UNCHANGED <<call, agent, saved, bounds>>

(* saveHost: the transaction commits, or fails. *)
Save ==
    /\ page.at = "save"
    /\ \/ /\ saved' = page.key /\ heard' = heard \ (({saved} \ {page.key}))
          /\ port' = Attached(page.session, "connect", links)
          /\ page' = [page EXCEPT !.at = IF page.kind = "pair" THEN "status" ELSE "done",
                                  !.result = IF page.kind = "pair" THEN "none" ELSE "ok",
                                  !.session = 0]
          /\ UNCHANGED <<links, opening, bounds>>
       \/ Fault /\ Fails(links, port) /\ heard' = heard \ {page.key} /\ UNCHANGED saved
    /\ UNCHANGED <<call, agent>>

-----------------------------------------------------------------------------
(***************************************************************************)
(* Requests                                                                *)
(***************************************************************************)
(* request(): a port without a transport, or that gave up, rejects it with an error of
   its own; a transport that was lost rejects it as unknown. *)
Ask ==
    /\ page.at \in {"status", "challenge", "finish", "refinish"} /\ call.stage = "none"
    /\ IF Via = 0
       THEN Fails(links, port) /\ UNCHANGED call
       ELSE IF links[Via].web # "up"
       THEN Rejected(page.at, links, port) /\ UNCHANGED call
       ELSE /\ call' = [link |-> Via, step |-> page.at, stage |-> "sent"]
            /\ UNCHANGED <<page, links, port, opening>>
    /\ UNCHANGED <<agent, saved, heard, bounds>>

(* The delay of 250 ms between two attempts *)
Delay ==
    /\ page.at = "delay"
    /\ page' = [page EXCEPT !.at = "finish"]
    /\ UNCHANGED <<port, opening, links, call, agent, saved, heard, bounds>>

MutAfterFinish(replayed) ==
    CASE page.kind \in {"pair", "enrol"} ->
           /\ page' = [page EXCEPT !.at = "done", !.result = "ok"]
           /\ UNCHANGED <<port, opening>>
      [] page.kind = "login" /\ page.remember ->
           page' = [page EXCEPT !.at = "save"] /\ UNCHANGED <<port, opening>>
      [] OTHER ->
           /\ page' = [page EXCEPT !.at = "done", !.result = "ok", !.session = 0]
           /\ port' = Attached(page.session, "resume", links) /\ UNCHANGED opening

AfterFinish(replayed) ==
    CASE page.kind \in {"pair", "enrol"} ->
           /\ page' = [page EXCEPT !.at = "done", !.result = "ok"]
           /\ UNCHANGED <<port, opening>>
      [] page.kind = "login" /\ replayed ->
           /\ page' = [page EXCEPT !.at = "rebinding"]
           /\ opening' = Start("flow") /\ UNCHANGED port
      [] page.kind = "login" /\ ~replayed /\ page.remember ->
           page' = [page EXCEPT !.at = "save"] /\ UNCHANGED <<port, opening>>
      [] OTHER ->
           /\ page' = [page EXCEPT !.at = "done", !.result = "ok", !.session = 0]
           /\ port' = Attached(page.session, "resume", links) /\ UNCHANGED opening

(* The answer arrives. A login needs a host that has an identity, a pairing creates it. *)
Hear ==
    /\ call.stage \in {"answered", "refused"} /\ links[call.link].web = "up"
    /\ call' = NoCall
    /\ IF call.stage = "refused" \/ (call.step = "status" /\ page.kind = "login" /\ ~agent.known)
       THEN Fails(links, port)
       ELSE /\ CASE call.step = "status" /\ page.kind = "pair" /\ agent.known ->
                      page' = [page EXCEPT !.at = "done", !.result = "ok"]
                      /\ UNCHANGED <<port, opening>>
                 [] call.step = "status" /\ ~(page.kind = "pair" /\ agent.known) ->
                      page' = [page EXCEPT !.at = IF page.challenged THEN "challenge" ELSE "finish"]
                      /\ UNCHANGED <<port, opening>>
                 [] call.step = "challenge" ->
                      page' = [page EXCEPT !.at = "prompt"] /\ UNCHANGED <<port, opening>>
                 [] OTHER -> AfterFinish(call.step = "refinish")
            /\ UNCHANGED links
    /\ UNCHANGED <<agent, saved, heard, bounds>>

(* REQUEST_TIMEOUT_MS *)
Timeout ==
    /\ call.stage # "none" /\ Fault
    /\ call' = NoCall
    /\ Rejected(call.step, links, port)
    /\ UNCHANGED <<agent, saved, heard>>

-----------------------------------------------------------------------------
(***************************************************************************)
(* Lost connections                                                        *)
(***************************************************************************)
(* #transportLost: the port goes on without a transport and schedules a reconnection. *)
PortWithout(n) ==
    IF port.made /\ port.current = n
    THEN [port EXCEPT !.current = 0, !.timer = ~port.closed /\ ~port.terminal]
    ELSE port

(* #invalidate: the page's end is lost; its request is rejected. *)
Lose(n) ==
    /\ links[n].web = "up"
    /\ \/ links[n].agent = "closed" /\ UNCHANGED bounds
       \/ Fault
    /\ LET L == Closed(links, {n})
           P == PortWithout(n) IN
       IF call.link = n
       THEN Rejected(call.step, L, P) /\ call' = NoCall
       ELSE links' = L /\ port' = P /\ UNCHANGED <<page, opening, call>>
    /\ UNCHANGED <<agent, saved, heard>>

(* The timer of #scheduleReconnect, and #attemptReconnect *)
Reconnect ==
    /\ port.timer
    /\ port' = [port EXCEPT !.timer = FALSE]
    /\ opening' = IF port.current = 0 THEN Start("port") ELSE opening
    /\ UNCHANGED <<page, links, call, agent, saved, heard, bounds>>

(* The page is reloaded or closed: only the storage remains. *)
Reload ==
    /\ Fault
    /\ page' = [page EXCEPT !.at = "idle", !.session = 0, !.result = "none"]
    /\ links' = Closed(links, {n \in Slot : links[n].web # "none"})
    /\ port' = NoPort /\ opening' = [o \in Openers |-> NoOpen] /\ call' = NoCall
    /\ heard' = heard \cap {saved}
    /\ UNCHANGED <<agent, saved>>

-----------------------------------------------------------------------------
(***************************************************************************)
(* The Agent                                                               *)
(***************************************************************************)
(* GatewayV2Connection.run. A page that gave up may have sent its hello. *)
Accept(n) ==
    /\ links[n].mode # "none" /\ links[n].agent = "none"
    /\ LET m == links[n].mode  k == links[n].key
           auth == IF m = "resume" THEN k \in agent.tickets
                   ELSE IF m = "connect" THEN k \in agent.trusted ELSE m = "pair"
           ok == IF m = "pair" THEN agent.grant ELSE (m = "login" \/ auth) IN
       /\ links' = [links EXCEPT
            ![n].agent = IF ok THEN "open" ELSE "closed",
            ![n].reply = IF ok THEN "ok" ELSE IF m = "pair" THEN "none" ELSE "reauth",
            ![n].auth = ok /\ auth]
       /\ agent' = [agent EXCEPT
            !.grant = agent.grant /\ m # "pair",
            !.trusted = IF m = "pair" /\ ok THEN @ \cup {k} ELSE @]
    /\ UNCHANGED <<page, port, opening, call, saved, heard, bounds>>

(* A final request: answered again from the window, or executed with its session's
   challenge (a recovery code and a rotation need none). *)
Serve ==
    /\ call.stage = "sent" /\ links[call.link].agent = "open"
    /\ LET n == call.link
           able == IF page.challenged THEN agent.challenge = n
                   ELSE (~agent.ran /\ (page.kind = "enrol" => links[n].auth)) IN
       IF call.step \notin Finishing
       THEN /\ agent' = IF call.step = "challenge" THEN [agent EXCEPT !.challenge = n] ELSE agent
            /\ call' = [call EXCEPT !.stage = "answered"] /\ UNCHANGED links
       ELSE IF agent.cached
       THEN call' = [call EXCEPT !.stage = "answered"] /\ UNCHANGED <<agent, links>>
       ELSE IF able
       THEN /\ agent' = [agent EXCEPT
                 !.cached = TRUE, !.ran = TRUE, !.known = TRUE, !.challenge = 0,
                 !.trusted = IF page.remember THEN @ \cup {page.key} ELSE @,
                 !.tickets = IF page.kind = "login" THEN @ \cup {page.key} ELSE @]
            /\ links' = [links EXCEPT ![n].auth = TRUE]
            /\ call' = [call EXCEPT !.stage = "answered"]
       ELSE call' = [call EXCEPT !.stage = "refused"] /\ UNCHANGED <<agent, links>>
    /\ UNCHANGED <<page, port, opening, saved, heard, bounds>>

(* The Agent's end notices that the page's end is gone (close, or the heartbeat). *)
AgentNotices(n) ==
    /\ links[n].agent = "open" /\ links[n].web = "closed"
    /\ links' = [links EXCEPT ![n].agent = "closed"]
    /\ agent' = [agent EXCEPT !.challenge = IF @ = n THEN 0 ELSE @]
    /\ UNCHANGED <<page, port, opening, call, saved, heard, bounds>>

(* The Agent restarts: challenges, tickets and the window are gone, devices are not. *)
Restart ==
    /\ Fault
    /\ links' = [n \in Slot |-> IF links[n].mode = "none" THEN links[n]
                                ELSE [links[n] EXCEPT !.agent = "closed"]]
    /\ agent' = [agent EXCEPT !.challenge = 0, !.tickets = {}, !.cached = FALSE]
    /\ UNCHANGED <<page, port, opening, call, saved, heard>>

(* The owner revokes the devices on the host. *)
Revoke ==
    /\ Fault /\ agent.trusted # {}
    /\ agent' = [agent EXCEPT !.trusted = {}]
    /\ UNCHANGED <<page, port, opening, links, call, saved, heard>>

-----------------------------------------------------------------------------
PageStep ==
    \/ Prompt \/ Save \/ Ask \/ Delay \/ Hear \/ Reconnect
    \/ \E o \in Openers : Dial(o) \/ OpenBroken(o) \/ OpenRefused(o) \/ OpenReply(o)
    \/ \E n \in Slot : links[n].agent = "closed" /\ Lose(n)

AgentStep == Serve \/ \E n \in Slot : Accept(n) \/ AgentNotices(n)

UserStep ==
    \/ \E kind \in Kinds \ {"enrol"}, r, c, f, s \in BOOLEAN : Begin(kind, r, c, f, s)
    \/ "enrol" \in Kinds /\ \E c \in BOOLEAN : Enrol(c)
    \/ Leave \/ Forget \/ Reload

Trouble == Timeout \/ Restart \/ Revoke \/ \E n \in Slot : Lose(n)

Next == PageStep \/ AgentStep \/ UserStep \/ Trouble

Spec == Init /\ [][Next]_vars

AgentEnded(n) == links[n].agent = "closed"

(* The page's event loop and the Agent run; timers fire; a prompt is answered or times
   out; nothing is assumed of the user or of failures. A request without an answer times
   out, which is a failure of the scene. *)
Fairness ==
    /\ WF_vars(PageStep) /\ WF_vars(AgentStep)
    /\ \A o \in Openers :
         WF_vars(Dial(o) \/ OpenBroken(o) \/ OpenRefused(o) \/ OpenReply(o))
    /\ WF_vars(Reconnect) /\ WF_vars(Prompt \/ Save \/ Ask \/ Delay \/ Hear)
    /\ \A n \in Slot : /\ WF_vars(AgentEnded(n) /\ Lose(n))
                       /\ WF_vars(Accept(n))

FairSpec == Spec /\ Fairness

-----------------------------------------------------------------------------
(***************************************************************************)
(* Properties                                                              *)
(***************************************************************************)
TypeOK ==
    /\ page.at \in {"idle", "opening", "save", "status", "challenge", "prompt", "finish", "delay",
                    "reopening", "refinish", "rebinding", "done", "failed"}
    /\ page.kind \in {"none", "pair", "login", "connect", "enrol"}
    /\ page.session \in Slot \cup {0} /\ port.current \in Slot \cup {0}
    /\ \A n \in Slot : links[n].web \in Ends /\ links[n].agent \in {"none", "open", "closed"}
    /\ saved \in Key /\ heard \subseteq Key

(* No connection is forgotten: one that is open in the page is the one its flow or its
   port holds, whatever failed, was repeated, or was closed while it was opened. *)
NoForgottenLink ==
    \A n \in Slot : links[n].web = "up" => n \in {page.session, port.current}

(* The gateway a flow returns, and every transport the port later puts under it, is a
   session the Agent takes for authenticated. *)
SessionBound ==
    (page.at = "done" /\ port.current # 0 /\ links[port.current].web = "up")
        => links[port.current].auth

(* A pairing that the page saw accepted is in the browser's storage before anything else
   can fail: the one-time grant is never spent on a key that nobody keeps. *)
PairingKept ==
    heard \subseteq {saved} \cup (IF page.at = "save" THEN {page.key} ELSE {})

(* A port whose transport is lost has one again, unless it is told to authenticate anew or
   closed. A transport that was lost before it was attached is the exception. *)
Connected ==
    \/ port.closed \/ port.terminal \/ port.deaf \/ ~port.made
    \/ port.current # 0 /\ links[port.current].web = "up"
PortComesBack == []<>Connected

(* A one-time mutation that was executed and can still be answered again is not reported
   as failed before its attempts are used up. *)
LostAnswerReplayed ==
    (page.kind \in {"pair", "enrol"} /\ page.result = "error" /\ agent.cached)
        => page.tries + 1 >= MaxTries
=============================================================================
